---- MODULE Spec2Model ----
(***************************************************************************)
(* Versioned virtual filesystem (schema fs): repositories, branches,       *)
(* commits and per-commit file deltas, with snapshot resolution, merge     *)
(* base, conflict detection, rebase and merge finalization.                *)
(*                                                                         *)
(* The persisted store is the four tables of fs.sql; rows are identified   *)
(* by the order of their insertion (the store generates the ids).          *)
(***************************************************************************)
EXTENDS Integers, Sequences, FiniteSets, TLC

VARIABLES
  repositories,  \* fs.repositories: sequence of [name, defaultBranchId]
  branches,      \* fs.branches: sequence of [repositoryId, name, headCommitId]
  commits,       \* fs.commits: sequence of [repositoryId, parentCommitId, mergedFromCommitId]
  files,         \* fs.files: set of [commitId, path, previousPath, content, isDeleted, isSymlink]
  res,           \* what the last call returned (or threw)
  pc,            \* per client: the statement a running call is about to execute
  loc,           \* per client: the local variables of the running call
  acked,         \* commits of the calls that returned successfully: set of <<branchId, commitId>>
  savepointCounter, \* the module's counter of savepoint names
  session,       \* the database connection: statements committed and in effect, savepoints, statements sent
  frames         \* the transaction bodies that are running, outermost first

dbvars == <<repositories, branches, commits, files>>
txvars == <<savepointCounter, session, frames>>
vars == <<repositories, branches, commits, files, res, pc, loc, acked, txvars>>

\* ------------------------------------------------------------------------
\* Bounds of the model
\* ------------------------------------------------------------------------
MaxCommits == 3        \* commits made by commitToBranch in the file-level specification
MaxGraphCommits == 3   \* commits in the graph-level specification
MaxMergeCommits == 4   \* commits in the merge-base specification
MaxGraphBranches == 2  \* branches in the graph-level specification
MaxConcCommits == 3    \* commits in the interleaving specification
MaxPublishedCommits == 3 \* commits made by commitToBranch in the merge specification
MaxFileCommits == 2    \* commits in the file history specification
MaxRaceCommits == 3    \* commits in the finalize interleaving specification
MaxServedCommits == 3  \* commits in the published-history specification
MaxPathChars == 4      \* characters of a path given to normalizePath
MaxApplications == 2   \* applications of normalizePath to one input
MaxTxDepth == 3          \* transaction bodies running one inside the other
MaxTxStatements == 3     \* statements executed on the connection
MaxSavepoints == 3       \* savepoints set on the connection

\* SQL NULL and JS null/undefined
Null == 0
Undefined == -1

\* ------------------------------------------------------------------------
\* Paths: a string is a sequence of characters, a character is named by a
\* one-element string; "^A" stands for the control character U+0001 and
\* "^I" for the tab
\* ------------------------------------------------------------------------
MaxPathLength == 4096

charCode(ch) ==
  CASE ch = "/" -> 47
    [] ch = "\\" -> 92
    [] ch = "a" -> 97
    [] ch = "b" -> 98
    [] ch = "x" -> 120
    [] ch = "y" -> 121
    [] ch = ":" -> 58
    [] ch = "%" -> 37
    [] ch = "_" -> 95
    [] ch = " " -> 32
    [] ch = "^I" -> 9
    [] ch = "^A" -> 1
    [] OTHER -> 63

\* String.prototype.trim removes these (among the characters of the model)
IsWhitespace(ch) == charCode(ch) \in {9, 10, 13, 32}

\* /[<>"|?*:]/
IsWindowsInvalid(ch) == charCode(ch) \in {60, 62, 34, 124, 63, 42, 58}

IsControl(ch) == charCode(ch) < 32 /\ charCode(ch) \notin {9, 10, 13}

\* the JS null passed where a string is expected
NullString == <<"null">>

\* validatePath returns normally
validatePath(path) ==
  /\ path # NullString
  /\ \E i \in 1..Len(path) : ~IsWhitespace(path[i])
  /\ Len(path) <= MaxPathLength
  /\ \A i \in 1..Len(path) : ~IsControl(path[i])
  /\ \A i \in 1..Len(path) : ~IsWindowsInvalid(path[i])

\* path.replace(/\\/g, "/")
ReplaceBackslashes(path) ==
  [i \in 1..Len(path) |-> IF path[i] = "\\" THEN "/" ELSE path[i]]

Includes2Slash(s) == \E i \in 1..(Len(s) - 1) : s[i] = "/" /\ s[i + 1] = "/"

\* s.replace(/\/\//g, "/"): one pass, left to right, non-overlapping
RECURSIVE ReplaceDoubleSlashOnce(_)
ReplaceDoubleSlashOnce(s) ==
  IF Len(s) < 2 THEN s
  ELSE IF s[1] = "/" /\ s[2] = "/"
       THEN <<"/">> \o ReplaceDoubleSlashOnce(SubSeq(s, 3, Len(s)))
       ELSE <<s[1]>> \o ReplaceDoubleSlashOnce(Tail(s))

\* mutant: one replace pass instead of the loop
CollapseSlashes_OnePass(s) == ReplaceDoubleSlashOnce(s)

\* while (normalized.includes("//")) normalized = normalized.replace(...)
RECURSIVE CollapseSlashes(_)
CollapseSlashes(s) ==
  IF Includes2Slash(s) THEN CollapseSlashes(ReplaceDoubleSlashOnce(s)) ELSE s

EnsureLeadingSlash(s) == IF Len(s) > 0 /\ s[1] = "/" THEN s ELSE <<"/">> \o s

StripTrailingSlash(s) ==
  IF Len(s) > 1 /\ s[Len(s)] = "/" THEN SubSeq(s, 1, Len(s) - 1) ELSE s

\* the value normalizePath returns when it does not throw
normalizePathValue(path) ==
  StripTrailingSlash(CollapseSlashes(EnsureLeadingSlash(ReplaceBackslashes(path))))

\* normalizePath returns normally
normalizePathOk(path) ==
  validatePath(path) /\ Len(normalizePathValue(path)) <= MaxPathLength

\* normalizeFilePath returns normally (its value is normalizePathValue)
normalizeFilePathOk(path) ==
  normalizePathOk(path) /\ normalizePathValue(path) # <<"/">>

\* ------------------------------------------------------------------------
\* The store: constraints of fs.sql
\* ------------------------------------------------------------------------
RepoIds == DOMAIN repositories
BranchIds == DOMAIN branches
CommitIds == DOMAIN commits

\* commits_parent_same_repo_fk, commits_merged_from_same_repo_fk and the
\* foreign key on repository_id
CommitForeignKeysOk(row) ==
  /\ row.repositoryId \in RepoIds
  /\ row.parentCommitId # Null =>
       /\ row.parentCommitId \in CommitIds
       /\ commits[row.parentCommitId].repositoryId = row.repositoryId
  /\ row.mergedFromCommitId # Null =>
       /\ row.mergedFromCommitId \in CommitIds
       /\ commits[row.mergedFromCommitId].repositoryId = row.repositoryId

\* commits_one_root_per_repo_idx
CommitRootIndexOk(row) ==
  row.parentCommitId = Null =>
    ~\E c \in CommitIds :
       commits[c].repositoryId = row.repositoryId /\ commits[c].parentCommitId = Null

\* (mutant) the insert without commits_one_root_per_repo_idx
InsertCommitOk_NoRootIndex(row) == CommitForeignKeysOk(row)

\* insert into fs.commits succeeds
InsertCommitOk(row) == CommitForeignKeysOk(row) /\ CommitRootIndexOk(row)

\* branches_head_commit_same_repo_fk
BranchHeadForeignKeyOk(repositoryId, headCommitId) ==
  headCommitId # Null =>
    /\ headCommitId \in CommitIds
    /\ commits[headCommitId].repositoryId = repositoryId

\* insert into fs.branches succeeds: foreign keys and unique (repository_id, name)
InsertBranchOk(row) ==
  /\ row.repositoryId \in RepoIds
  /\ ~\E b \in BranchIds :
       branches[b].repositoryId = row.repositoryId /\ branches[b].name = row.name
  /\ BranchHeadForeignKeyOk(row.repositoryId, row.headCommitId)

\* insert into fs.files succeeds: foreign key on commit_id, unique (commit_id, path)
InsertFileOk(C, F, row) ==
  /\ row.commitId \in DOMAIN C
  /\ ~\E f \in F : f.commitId = row.commitId /\ f.path = row.path

\* select b.head_commit_id from fs.repositories r join fs.branches b
\* on b.id = r.default_branch_id where r.id = repositoryId
\* (Null also when the join has no row)
DefaultBranchHead(repositoryId) ==
  IF /\ repositoryId \in RepoIds
     /\ repositories[repositoryId].defaultBranchId \in BranchIds
  THEN branches[repositories[repositoryId].defaultBranchId].headCommitId
  ELSE Null

\* select 1 from fs.commits where repository_id = repositoryId limit 1
CommitExistsIn(repositoryId) ==
  \E c \in CommitIds : commits[c].repositoryId = repositoryId

\* ------------------------------------------------------------------------
\* Repository / branch registry
\* ------------------------------------------------------------------------
RepoNameTaken(name) == \E r \in RepoIds : repositories[r].name = name

\* createRepository(name): insert the repository, insert its branch 'main'
\* with a null head, point default_branch_id at it
createRepository(name) ==
  /\ IF RepoNameTaken(name)
     THEN /\ UNCHANGED <<repositories, branches>>
          /\ res' = [op |-> "createRepository", outcome |-> "error", error |-> "DuplicateName"]
     ELSE /\ repositories' = Append(repositories,
                               [name |-> name, defaultBranchId |-> Len(branches) + 1])
          /\ branches' = Append(branches,
                           [repositoryId |-> Len(repositories) + 1, name |-> "main",
                            headCommitId |-> Null])
          /\ res' = [op |-> "createRepository", outcome |-> "ok",
                     id |-> Len(repositories) + 1]
  /\ UNCHANGED <<commits, files, pc, loc, acked, txvars>>

\* createBranch: the head the new branch gets (headCommitId ?? null, then
\* the default branch's head)
createBranchHead(repositoryId, headCommitId) ==
  IF headCommitId \in {Null, Undefined}
  THEN DefaultBranchHead(repositoryId)
  ELSE headCommitId

createBranchError(repositoryId, name, headCommitId) ==
  IF /\ headCommitId \in {Null, Undefined}
     /\ DefaultBranchHead(repositoryId) = Null
     /\ CommitExistsIn(repositoryId)
  THEN "AmbiguousHead"
  ELSE IF ~InsertBranchOk([repositoryId |-> repositoryId, name |-> name,
                           headCommitId |-> createBranchHead(repositoryId, headCommitId)])
       THEN IF \E b \in BranchIds :
                 branches[b].repositoryId = repositoryId /\ branches[b].name = name
            THEN "DuplicateName"
            ELSE "ForeignKeyViolation"
       ELSE "none"

createBranch(repositoryId, name, headCommitId) ==
  LET e == createBranchError(repositoryId, name, headCommitId) IN
  /\ IF e = "none"
     THEN /\ branches' = Append(branches,
                           [repositoryId |-> repositoryId, name |-> name,
                            headCommitId |-> createBranchHead(repositoryId, headCommitId)])
          /\ res' = [op |-> "createBranch", outcome |-> "ok", id |-> Len(branches) + 1]
     ELSE /\ UNCHANGED branches
          /\ res' = [op |-> "createBranch", outcome |-> "error", error |-> e]
  /\ UNCHANGED <<repositories, commits, files, pc, loc, acked, txvars>>

\* update fs.branches set head_commit_id = headCommitId where id = branchId
\* (no row is updated for an unknown branch; the foreign key rejects a head
\* of another repository)
UpdateHeadOk(branchId, headCommitId) ==
  branchId \in BranchIds =>
    BranchHeadForeignKeyOk(branches[branchId].repositoryId, headCommitId)

BranchesWithHead(B, branchId, headCommitId) ==
  IF branchId \in DOMAIN B
  THEN [B EXCEPT ![branchId].headCommitId = headCommitId]
  ELSE B

updateBranchHead(branchId, headCommitId) ==
  /\ IF UpdateHeadOk(branchId, headCommitId)
     THEN /\ branches' = BranchesWithHead(branches, branchId, headCommitId)
          /\ res' = [op |-> "updateBranchHead", outcome |-> "ok"]
     ELSE /\ UNCHANGED branches
          /\ res' = [op |-> "updateBranchHead", outcome |-> "error",
                     error |-> "ForeignKeyViolation"]
  /\ UNCHANGED <<repositories, commits, files, pc, loc, acked, txvars>>

\* ------------------------------------------------------------------------
\* Commit graph store
\* ------------------------------------------------------------------------
\* mutant: a null parent is replaced by the default head as an omitted one is
resolvedParentCommitId_NullDefaults(repositoryId, parentCommitId) ==
  IF parentCommitId \in {Undefined, Null}
  THEN DefaultBranchHead(repositoryId)
  ELSE parentCommitId

\* createCommit: resolvedParentCommitId
resolvedParentCommitId(repositoryId, parentCommitId) ==
  IF parentCommitId = Undefined
  THEN DefaultBranchHead(repositoryId)
  ELSE parentCommitId

createCommitRow(repositoryId, parentCommitId, mergedFromCommitId) ==
  [repositoryId |-> repositoryId,
   parentCommitId |-> resolvedParentCommitId(repositoryId, parentCommitId),
   mergedFromCommitId |->
     IF mergedFromCommitId = Undefined THEN Null ELSE mergedFromCommitId]

\* (mutant) the parent check looks the commit up by id alone
ParentInRepository_AnyRepository(repositoryId, parent) ==
  parent # Null => parent \in CommitIds

\* the parent check of createCommit: select 1 from fs.commits where
\* id = resolvedParentCommitId and repository_id = repositoryId
ParentInRepository(repositoryId, parent) ==
  parent # Null =>
    /\ parent \in CommitIds
    /\ commits[parent].repositoryId = repositoryId

\* (mutant) createCommit inserts whatever it is given
createCommitError_Unchecked(repositoryId, parentCommitId, mergedFromCommitId) ==
  "none"

\* "none" when createCommit returns the new commit, else what it throws
createCommitError(repositoryId, parentCommitId, mergedFromCommitId) ==
  IF /\ parentCommitId = Undefined
     /\ DefaultBranchHead(repositoryId) = Null
     /\ CommitExistsIn(repositoryId)
  THEN "AmbiguousParent"
  ELSE IF ~ParentInRepository(repositoryId,
                              resolvedParentCommitId(repositoryId, parentCommitId))
       THEN "CrossRepositoryReference"
       ELSE IF ~InsertCommitOk(createCommitRow(repositoryId, parentCommitId,
                                               mergedFromCommitId))
            THEN "ConstraintViolation"
            ELSE "none"

createCommit(repositoryId, parentCommitId, mergedFromCommitId) ==
  LET e == createCommitError(repositoryId, parentCommitId, mergedFromCommitId) IN
  /\ IF e = "none"
     THEN /\ commits' = Append(commits, createCommitRow(repositoryId, parentCommitId,
                                                        mergedFromCommitId))
          /\ res' = [op |-> "createCommit", outcome |-> "ok", id |-> Len(commits) + 1]
     ELSE /\ UNCHANGED commits
          /\ res' = [op |-> "createCommit", outcome |-> "error", error |-> e]
  /\ UNCHANGED <<repositories, branches, files, pc, loc, acked, txvars>>

\* ------------------------------------------------------------------------
\* Merge base
\* ------------------------------------------------------------------------
\* (mutant) the ancestor walk follows parent_commit_id only
RECURSIVE AncestorRows_ParentOnly(_, _)
AncestorRows_ParentOnly(id, depth) ==
  IF id \notin CommitIds \/ depth > Len(commits)
  THEN {}
  ELSE {<<id, depth>>} \cup AncestorRows_ParentOnly(commits[id].parentCommitId, depth + 1)

\* left_ancestors / right_ancestors: the rows <<id, depth>> of the recursive
\* query over parent_commit_id or merged_from_commit_id (one row per path;
\* a walk in an acyclic graph is never longer than the number of commits)
RECURSIVE AncestorRows(_, _)
AncestorRows(id, depth) ==
  IF id \notin CommitIds \/ depth > Len(commits)
  THEN {}
  ELSE {<<id, depth>>}
         \cup AncestorRows(commits[id].parentCommitId, depth + 1)
         \cup AncestorRows(commits[id].mergedFromCommitId, depth + 1)

SetMin(S) == CHOOSE m \in S : \A n \in S : m <= n

\* common: the rows <<id, min(l.depth + r.depth)>> of the join of the two
\* ancestor sets, grouped by id
CommonRows(leftCommitId, rightCommitId) ==
  LET L == AncestorRows(leftCommitId, 0)
      R == AncestorRows(rightCommitId, 0)
      ids == {l[1] : l \in L} \cap {r[1] : r \in R}
  IN {<<id, SetMin({l[2] + r[2] : l \in {x \in L : x[1] = id},
                                 r \in {x \in R : x[1] = id}})>> : id \in ids}

\* (mutant) any common ancestor, whatever its total depth
MergeBaseCandidates_AnyCommon(leftCommitId, rightCommitId) ==
  {row[1] : row \in CommonRows(leftCommitId, rightCommitId)}

\* order by total_depth asc limit 1: any row of least total_depth (the
\* query does not order rows of equal total_depth)
MergeBaseCandidates(leftCommitId, rightCommitId) ==
  LET common == CommonRows(leftCommitId, rightCommitId)
  IN {row[1] : row \in {x \in common : \A other \in common : x[2] <= other[2]}}

\* "none" when getMergeBase returns a commit, else what it throws
getMergeBaseError(leftCommitId, rightCommitId) ==
  IF leftCommitId = Null \/ rightCommitId = Null THEN "MissingArgument"
  ELSE IF leftCommitId \notin CommitIds \/ rightCommitId \notin CommitIds
       THEN "UnknownCommit"
       ELSE IF commits[leftCommitId].repositoryId # commits[rightCommitId].repositoryId
            THEN "CrossRepositoryReference"
            ELSE IF MergeBaseCandidates(leftCommitId, rightCommitId) = {}
                 THEN "NoCommonAncestor"
                 ELSE "none"

getMergeBase(leftCommitId, rightCommitId) ==
  LET e == getMergeBaseError(leftCommitId, rightCommitId) IN
  /\ IF e = "none"
     THEN \E base \in MergeBaseCandidates(leftCommitId, rightCommitId) :
            res' = [op |-> "getMergeBase", outcome |-> "ok", left |-> leftCommitId,
                    right |-> rightCommitId, base |-> base]
     ELSE res' = [op |-> "getMergeBase", outcome |-> "error", error |-> e,
                  left |-> leftCommitId, right |-> rightCommitId]
  /\ UNCHANGED <<repositories, branches, commits, files, pc, loc, acked, txvars>>

\* ------------------------------------------------------------------------
\* File delta store
\* ------------------------------------------------------------------------
\* SQL NULL in previous_path, and an omitted or empty options.previousPath
NoPath == <<>>

\* mutant: the row holds content and symlink flag as passed
writeFileRow_AsPassed(commitId, file) ==
  [commitId |-> commitId,
   path |-> normalizePathValue(file.path),
   previousPath |-> IF file.previousPath = NoPath THEN NoPath
                    ELSE normalizePathValue(file.previousPath),
   content |-> IF file.isSymlink THEN normalizePathValue(file.content)
               ELSE file.content,
   isDeleted |-> file.isDeleted,
   isSymlink |-> file.isSymlink]

\* the row writeFile inserts; file is the call's arguments
\* [path, content, isSymlink, isDeleted, previousPath]
writeFileRow(commitId, file) ==
  [commitId |-> commitId,
   path |-> normalizePathValue(file.path),
   previousPath |-> IF file.previousPath = NoPath THEN NoPath
                    ELSE normalizePathValue(file.previousPath),
   content |-> IF file.isDeleted THEN <<>>
               ELSE IF file.isSymlink THEN normalizePathValue(file.content)
               ELSE file.content,
   isDeleted |-> file.isDeleted,
   isSymlink |-> IF file.isDeleted THEN FALSE ELSE file.isSymlink]

\* "none" when writeFile returns the new row, else what it throws
writeFileError(C, F, commitId, file) ==
  IF ~normalizeFilePathOk(file.path) THEN "InvalidPath"
  ELSE IF file.previousPath # NoPath /\ ~normalizeFilePathOk(file.previousPath)
       THEN "InvalidPath"
  ELSE IF ~file.isDeleted /\ file.content = NullString THEN "MissingContent"
  ELSE IF ~file.isDeleted /\ file.isSymlink /\ ~normalizeFilePathOk(file.content)
       THEN "InvalidPath"
  ELSE IF ~InsertFileOk(C, F, writeFileRow(commitId, file)) THEN "ConstraintViolation"
  ELSE "none"

\* writeFiles: one writeFile after the other, stopping at the first that
\* throws; the rows written before it stay
RECURSIVE writeFilesFrom(_, _, _, _)
writeFilesFrom(C, F, commitId, fileList) ==
  IF fileList = <<>> THEN [files |-> F, error |-> "none"]
  ELSE LET e == writeFileError(C, F, commitId, Head(fileList)) IN
       IF e # "none" THEN [files |-> F, error |-> e]
       ELSE writeFilesFrom(C, F \cup {writeFileRow(commitId, Head(fileList))},
                           commitId, Tail(fileList))

writeFile(commitId, file) ==
  LET e == writeFileError(commits, files, commitId, file) IN
  /\ IF e = "none"
     THEN /\ files' = files \cup {writeFileRow(commitId, file)}
          /\ res' = [op |-> "writeFile", outcome |-> "ok"]
     ELSE /\ UNCHANGED files
          /\ res' = [op |-> "writeFile", outcome |-> "error", error |-> e]
  /\ UNCHANGED <<repositories, branches, commits, pc, loc, acked, txvars>>

\* moveFile: writeFile(commitId, toPath, content, {...options, previousPath: fromPath})
moveFileArgs(fromPath, toPath, content, isSymlink) ==
  [path |-> toPath, content |-> content, isSymlink |-> isSymlink,
   isDeleted |-> FALSE, previousPath |-> fromPath]

moveFile(commitId, fromPath, toPath, content, isSymlink) ==
  LET file == moveFileArgs(fromPath, toPath, content, isSymlink)
      e == writeFileError(commits, files, commitId, file)
  IN
  /\ IF e = "none"
     THEN /\ files' = files \cup {writeFileRow(commitId, file)}
          /\ res' = [op |-> "moveFile", outcome |-> "ok"]
     ELSE /\ UNCHANGED files
          /\ res' = [op |-> "moveFile", outcome |-> "error", error |-> e]
  /\ UNCHANGED <<repositories, branches, commits, pc, loc, acked, txvars>>

\* deleteFile: writeFile(commitId, path, "", { isDeleted: true })
deleteFileArgs(path) ==
  [path |-> path, content |-> <<>>, isSymlink |-> FALSE,
   isDeleted |-> TRUE, previousPath |-> NoPath]

deleteFile(commitId, path) ==
  LET e == writeFileError(commits, files, commitId, deleteFileArgs(path)) IN
  /\ IF e = "none"
     THEN /\ files' = files \cup {writeFileRow(commitId, deleteFileArgs(path))}
          /\ res' = [op |-> "deleteFile", outcome |-> "ok"]
     ELSE /\ UNCHANGED files
          /\ res' = [op |-> "deleteFile", outcome |-> "error", error |-> e]
  /\ UNCHANGED <<repositories, branches, commits, pc, loc, acked, txvars>>

\* ------------------------------------------------------------------------
\* Snapshot resolver
\* ------------------------------------------------------------------------
\* commit_tree: the rows <<id, depth>> of the walk over parent_commit_id
RECURSIVE CommitTree(_, _)
CommitTree(id, depth) ==
  IF id \notin CommitIds \/ depth > Len(commits)
  THEN {}
  ELSE {<<id, depth>>} \cup CommitTree(commits[id].parentCommitId, depth + 1)

\* readFile: file_entries, the rows at path or moved away from path,
\* joined to the commit tree
ReadFileEntries(commitId, path) ==
  LET tree == CommitTree(commitId, 0) IN
  {[depth |-> ct[2], row |-> f] :
     <<ct, f>> \in {x \in tree \X {g \in files : g.path = path \/ g.previousPath = path} :
                      x[2].commitId = x[1][1]}}

\* mutant: the deleted flag of the selected row is not looked at
ReadFileOfRow_IgnoresDeleted(row, path) ==
  IF row.previousPath = path /\ row.path # path THEN NullString
  ELSE row.content

\* what readFile returns from the row it selected (NullString for null)
ReadFileOfRow(row, path) ==
  IF row.isDeleted THEN NullString
  ELSE IF row.previousPath = path /\ row.path # path THEN NullString
  ELSE row.content

\* readFile(commitId, path) for an existing commit and a path normalizePath
\* accepts: order by depth asc limit 1 takes any row of least depth
ReadFileResults(commitId, path) ==
  LET entries == ReadFileEntries(commitId, normalizePathValue(path))
      first == {e \in entries : \A o \in entries : e.depth <= o.depth}
  IN IF entries = {} THEN {NullString}
     ELSE {ReadFileOfRow(e.row, normalizePathValue(path)) : e \in first}

\* mutant: all_operations without the implicit deletes of moved paths
AllOperations_WritesOnly(commitId) ==
  LET tree == CommitTree(commitId, 0)
      joined == {x \in tree \X files : x[2].commitId = x[1][1]}
  IN {[path |-> x[2].path, isDeleted |-> x[2].isDeleted,
       isSymlink |-> x[2].isSymlink, depth |-> x[1][2]] : x \in joined}

\* getCommitSnapshot: all_operations
AllOperations(commitId) ==
  LET tree == CommitTree(commitId, 0)
      joined == {x \in tree \X files : x[2].commitId = x[1][1]}
  IN {[path |-> x[2].path, isDeleted |-> x[2].isDeleted,
       isSymlink |-> x[2].isSymlink, depth |-> x[1][2]] : x \in joined}
     \cup
     {[path |-> x[2].previousPath, isDeleted |-> TRUE,
       isSymlink |-> FALSE, depth |-> x[1][2]] :
        x \in {y \in joined : y[2].previousPath # NoPath}}

\* ranked_operations with rn = 1: per path any operation of least depth
FirstOperations(ops, path) ==
  {o \in ops : o.path = path /\ \A q \in ops : q.path = path => o.depth <= q.depth}

\* getCommitSnapshot(commitId) without a prefix: the possible results, each
\* a set of [path, isSymlink]
CommitSnapshots(commitId) ==
  LET ops == AllOperations(commitId)
      paths == {o.path : o \in ops}
      firsts == UNION {FirstOperations(ops, p) : p \in paths}
      picks == {pick \in [paths -> firsts] : \A p \in paths : pick[p].path = p}
  IN {{[path |-> p, isSymlink |-> pick[p].isSymlink] :
         p \in {q \in paths : ~pick[q].isDeleted}} : pick \in picks}

\* getCommitSnapshotWithContent: readFile per entry, content ?? ""
ContentChoices(commitId, snapshot) ==
  {choice \in [snapshot -> UNION {ReadFileResults(commitId, e.path) : e \in snapshot}] :
     \A e \in snapshot : choice[e] \in ReadFileResults(commitId, e.path)}

CommitSnapshotsWithContent(commitId) ==
  UNION {{{[path |-> e.path, isSymlink |-> e.isSymlink,
            content |-> IF choice[e] = NullString THEN <<>> ELSE choice[e]] :
             e \in snapshot} : choice \in ContentChoices(commitId, snapshot)} :
         snapshot \in CommitSnapshots(commitId)}

\* readFile(commitId, path): "none" when it returns, else what it throws
readFileError(commitId, path) ==
  IF commitId \notin CommitIds THEN "InvalidCommit"
  ELSE IF ~normalizePathOk(path) THEN "InvalidPath"
  ELSE "none"

readFile(commitId, path) ==
  /\ IF readFileError(commitId, path) # "none"
     THEN res' = [op |-> "readFile", outcome |-> "error",
                  error |-> readFileError(commitId, path)]
     ELSE \E content \in ReadFileResults(commitId, path) :
            res' = [op |-> "readFile", outcome |-> "ok", commitId |-> commitId,
                    path |-> normalizePathValue(path), content |-> content]
  /\ UNCHANGED <<repositories, branches, commits, files, pc, loc, acked, txvars>>

\* pathPrefix.endsWith("/") || pathPrefix.endsWith("\\")
HasTrailingSlash(pathPrefix) ==
  Len(pathPrefix) > 0 /\ pathPrefix[Len(pathPrefix)] \in {"/", "\\"}

\* the value normalizePathPrefix returns when it does not throw
normalizePathPrefixValue(pathPrefix) ==
  LET normalized == CollapseSlashes(EnsureLeadingSlash(ReplaceBackslashes(pathPrefix)))
  IN IF /\ HasTrailingSlash(pathPrefix)
        /\ normalized # <<"/">>
        /\ normalized[Len(normalized)] # "/"
     THEN normalized \o <<"/">>
     ELSE normalized

\* normalizePathPrefix returns normally
normalizePathPrefixOk(pathPrefix) ==
  validatePath(pathPrefix) /\ Len(normalizePathPrefixValue(pathPrefix)) <= MaxPathLength

\* the SQL operator s like pattern: % matches any run of characters, _ any
\* one character (no pattern of the model holds the escape character)
RECURSIVE Like(_, _)
Like(s, pattern) ==
  IF pattern = <<>> THEN s = <<>>
  ELSE IF Head(pattern) = "%"
       THEN Like(s, Tail(pattern)) \/ (s # <<>> /\ Like(Tail(s), pattern))
       ELSE /\ s # <<>>
            /\ Head(pattern) = "_" \/ Head(pattern) = Head(s)
            /\ Like(Tail(s), Tail(pattern))

\* the where clause of ranked_operations; NoPath is an omitted or empty
\* pathPrefix
PrefixKeeps(pathPrefix, path) ==
  \/ pathPrefix = NoPath
  \/ Like(path, normalizePathPrefixValue(pathPrefix) \o <<"%">>)

\* getCommitSnapshot(commitId, pathPrefix): the possible results
PrefixedSnapshots(commitId, pathPrefix) ==
  LET ops == {o \in AllOperations(commitId) : PrefixKeeps(pathPrefix, o.path)}
      paths == {o.path : o \in ops}
      firsts == UNION {FirstOperations(ops, p) : p \in paths}
      picks == {pick \in [paths -> firsts] : \A p \in paths : pick[p].path = p}
  IN {{[path |-> p, isSymlink |-> pick[p].isSymlink] :
         p \in {q \in paths : ~pick[q].isDeleted}} : pick \in picks}

getCommitSnapshotError(commitId, pathPrefix) ==
  IF commitId \notin CommitIds THEN "InvalidCommit"
  ELSE IF pathPrefix # NoPath /\ ~normalizePathPrefixOk(pathPrefix) THEN "InvalidPath"
  ELSE "none"

getCommitSnapshot(commitId, pathPrefix) ==
  /\ IF getCommitSnapshotError(commitId, pathPrefix) # "none"
     THEN res' = [op |-> "getCommitSnapshot", outcome |-> "error",
                  error |-> getCommitSnapshotError(commitId, pathPrefix)]
     ELSE \E snapshot \in PrefixedSnapshots(commitId, pathPrefix) :
            res' = [op |-> "getCommitSnapshot", outcome |-> "ok",
                    commitId |-> commitId, pathPrefix |-> pathPrefix,
                    snapshot |-> snapshot]
  /\ UNCHANGED <<repositories, branches, commits, files, pc, loc, acked, txvars>>

\* getFileHistory: the rows of commit_tree joined to the deltas at the path
FileHistoryRows(commitId, path) ==
  LET tree == CommitTree(commitId, 0) IN
  {[commitId |-> x[2].commitId,
    content |-> IF x[2].isDeleted THEN NullString ELSE x[2].content,
    isDeleted |-> x[2].isDeleted,
    isSymlink |-> x[2].isSymlink] :
     x \in {y \in tree \X {f \in files : f.path = path} : y[2].commitId = y[1][1]}}

\* the sequences that list every element of S once
RECURSIVE Orderings(_)
Orderings(S) ==
  IF S = {} THEN {<<>>}
  ELSE UNION {{<<x>> \o rest : rest \in Orderings(S \ {x})} : x \in S}

\* the query of getFileHistory has no order by: the rows come in any order
FileHistories(commitId, path) ==
  Orderings(FileHistoryRows(commitId, normalizePathValue(path)))

getFileHistory(commitId, path) ==
  /\ IF readFileError(commitId, path) # "none"
     THEN res' = [op |-> "getFileHistory", outcome |-> "error",
                  error |-> readFileError(commitId, path)]
     ELSE \E history \in FileHistories(commitId, path) :
            res' = [op |-> "getFileHistory", outcome |-> "ok",
                    commitId |-> commitId, path |-> normalizePathValue(path),
                    history |-> history]
  /\ UNCHANGED <<repositories, branches, commits, files, pc, loc, acked, txvars>>

\* ------------------------------------------------------------------------
\* Conflict detector
\* ------------------------------------------------------------------------
\* map.get(path) with the defaults of getConflicts: exists = !!e,
\* isSymlink = e?.isSymlink ?? false, content = e?.content ?? null
Side(snapshot, path) ==
  IF \E e \in snapshot : e.path = path
  THEN LET e == CHOOSE x \in snapshot : x.path = path
       IN [exists |-> TRUE, isSymlink |-> e.isSymlink, content |-> e.content]
  ELSE [exists |-> FALSE, isSymlink |-> FALSE, content |-> NullString]

\* leftChanged, rightChanged, sidesDiffer
SideChanged(a, b) ==
  a.exists # b.exists \/ a.isSymlink # b.isSymlink \/ a.content # b.content

\* (mutant) a path conflicts as soon as both sides changed
IsConflict_BothChanged(base, left, right) ==
  SideChanged(left, base) /\ SideChanged(right, base)

\* (mutant) no path ever conflicts
IsConflict_Never(base, left, right) == FALSE

IsConflict(base, left, right) ==
  SideChanged(left, base) /\ SideChanged(right, base) /\ SideChanged(left, right)

\* (mutant) delete/modify only when both sides miss the path
conflictKind_BothMissing(base, left, right) ==
  IF base.exists /\ (~left.exists /\ ~right.exists) THEN "delete/modify"
  ELSE IF ~base.exists /\ left.exists /\ right.exists THEN "add/add"
  ELSE "modify/modify"

conflictKind(base, left, right) ==
  IF base.exists /\ (~left.exists \/ ~right.exists) THEN "delete/modify"
  ELSE IF ~base.exists /\ left.exists /\ right.exists THEN "add/add"
  ELSE "modify/modify"

SnapshotPaths(snapshot) == {e.path : e \in snapshot}

\* the conflicts getConflicts builds from the three snapshots
ConflictsOf(baseSnapshot, leftSnapshot, rightSnapshot) ==
  LET allPaths == SnapshotPaths(baseSnapshot) \cup SnapshotPaths(leftSnapshot)
                    \cup SnapshotPaths(rightSnapshot)
  IN {[path |-> p,
       conflictKind |-> conflictKind(Side(baseSnapshot, p), Side(leftSnapshot, p),
                                     Side(rightSnapshot, p))] :
        p \in {q \in allPaths : IsConflict(Side(baseSnapshot, q), Side(leftSnapshot, q),
                                           Side(rightSnapshot, q))}}

\* what getConflicts can return for two commits getMergeBase accepts
GetConflictsResults(leftCommitId, rightCommitId) ==
  UNION {{[mergeBaseCommitId |-> mb, conflicts |-> ConflictsOf(b, l, r)] :
            b \in CommitSnapshotsWithContent(mb),
            l \in CommitSnapshotsWithContent(leftCommitId),
            r \in CommitSnapshotsWithContent(rightCommitId)} :
         mb \in MergeBaseCandidates(leftCommitId, rightCommitId)}

getConflicts(leftCommitId, rightCommitId) ==
  LET e == getMergeBaseError(leftCommitId, rightCommitId) IN
  /\ IF e = "none"
     THEN \E r \in GetConflictsResults(leftCommitId, rightCommitId) :
            res' = [op |-> "getConflicts", outcome |-> "ok", left |-> leftCommitId,
                    right |-> rightCommitId, mergeBaseCommitId |-> r.mergeBaseCommitId,
                    conflicts |-> r.conflicts]
     ELSE res' = [op |-> "getConflicts", outcome |-> "error", error |-> e]
  /\ UNCHANGED <<repositories, branches, commits, files, pc, loc, acked, txvars>>

\* ------------------------------------------------------------------------
\* Net change of a source line relative to a target (rebase and merge)
\* ------------------------------------------------------------------------
\* order by path
RECURSIVE PathBefore(_, _)
PathBefore(a, b) ==
  IF a = <<>> THEN b # <<>>
  ELSE IF b = <<>> THEN FALSE
  ELSE IF charCode(Head(a)) # charCode(Head(b)) THEN charCode(Head(a)) < charCode(Head(b))
  ELSE PathBefore(Tail(a), Tail(b))

RECURSIVE SortedPaths(_)
SortedPaths(S) ==
  IF S = {} THEN <<>>
  ELSE LET first == CHOOSE p \in S : \A q \in S \ {p} : PathBefore(p, q)
       IN <<first>> \o SortedPaths(S \ {first})

\* new Set([...base paths, ...target paths, ...source paths, ...extra]) in
\* insertion order
AllPathsOf(baseSnapshot, targetSnapshot, sourceSnapshot, extra) ==
  SortedPaths(SnapshotPaths(baseSnapshot))
    \o SortedPaths(SnapshotPaths(targetSnapshot) \ SnapshotPaths(baseSnapshot))
    \o SortedPaths(SnapshotPaths(sourceSnapshot)
                     \ (SnapshotPaths(baseSnapshot) \cup SnapshotPaths(targetSnapshot)))
    \o SortedPaths(extra \ (SnapshotPaths(baseSnapshot) \cup SnapshotPaths(targetSnapshot)
                              \cup SnapshotPaths(sourceSnapshot)))

\* content ?? ""
OrEmpty(content) == IF content = NullString THEN <<>> ELSE content

\* (mutant) the desired state is always the source's
DesiredSide_AlwaysSource(base, target, source) ==
  [exists |-> source.exists, isSymlink |-> source.isSymlink,
   content |-> OrEmpty(source.content)]

\* (mutant) the desired state is always the target's
DesiredSide_AlwaysTarget(base, target, source) ==
  [exists |-> target.exists, isSymlink |-> target.isSymlink,
   content |-> OrEmpty(target.content)]

\* desired state of a path: the source's if the source changed it from the
\* base, else the target's
DesiredSide(base, target, source) ==
  IF SideChanged(source, base)
  THEN [exists |-> source.exists, isSymlink |-> source.isSymlink,
        content |-> OrEmpty(source.content)]
  ELSE [exists |-> target.exists, isSymlink |-> target.isSymlink,
        content |-> OrEmpty(target.content)]

\* (mutant) every existing desired state is written, differing or not
PatchEntry_WritesAll(path, base, target, source) ==
  LET desired == DesiredSide(base, target, source)
      needDelete == ~desired.exists /\ target.exists
  IN IF needDelete
     THEN <<[path |-> path, content |-> <<>>, isSymlink |-> FALSE,
             isDeleted |-> TRUE, previousPath |-> NoPath]>>
     ELSE IF desired.exists
          THEN <<[path |-> path, content |-> desired.content,
                  isSymlink |-> desired.isSymlink, isDeleted |-> FALSE,
                  previousPath |-> NoPath]>>
          ELSE <<>>

\* the writeFile arguments for a path: <<>> when nothing is to be written,
\* else one tombstone or one write
PatchEntry(path, base, target, source) ==
  LET desired == DesiredSide(base, target, source)
      needDelete == ~desired.exists /\ target.exists
      needWrite == /\ desired.exists
                   /\ \/ ~target.exists
                      \/ target.isSymlink # desired.isSymlink
                      \/ OrEmpty(target.content) # desired.content
  IN IF needDelete
     THEN <<[path |-> path, content |-> <<>>, isSymlink |-> FALSE,
             isDeleted |-> TRUE, previousPath |-> NoPath]>>
     ELSE IF needWrite
          THEN <<[path |-> path, content |-> desired.content,
                  isSymlink |-> desired.isSymlink, isDeleted |-> FALSE,
                  previousPath |-> NoPath]>>
          ELSE <<>>

RECURSIVE PatchOver(_, _, _, _, _)
PatchOver(paths, skip, baseSnapshot, targetSnapshot, sourceSnapshot) ==
  IF paths = <<>> THEN <<>>
  ELSE (IF Head(paths) \in skip THEN <<>>
        ELSE PatchEntry(Head(paths), Side(baseSnapshot, Head(paths)),
                        Side(targetSnapshot, Head(paths)),
                        Side(sourceSnapshot, Head(paths))))
       \o PatchOver(Tail(paths), skip, baseSnapshot, targetSnapshot, sourceSnapshot)

\* rebaseBranch: filesToWrite
RebasePatch(baseSnapshot, ontoSnapshot, branchSnapshot) ==
  PatchOver(AllPathsOf(baseSnapshot, ontoSnapshot, branchSnapshot, {}), {},
            baseSnapshot, ontoSnapshot, branchSnapshot)

\* finalizeCommit: the writes of its loop, skipping the paths the commit
\* already holds
FinalizePatch(baseSnapshot, targetSnapshot, sourceSnapshot, userWritePaths) ==
  PatchOver(AllPathsOf(baseSnapshot, targetSnapshot, sourceSnapshot, userWritePaths),
            userWritePaths, baseSnapshot, targetSnapshot, sourceSnapshot)

\* the store and the result a call leaves
Outcome(R, B, C, F, result) ==
  [repositories |-> R, branches |-> B, commits |-> C, files |-> F, res |-> result]

Unchanged(result) == Outcome(repositories, branches, commits, files, result)

Leaves(out) ==
  /\ repositories' = out.repositories
  /\ branches' = out.branches
  /\ commits' = out.commits
  /\ files' = out.files
  /\ res' = out.res
  /\ UNCHANGED <<pc, loc, acked, txvars>>

\* ------------------------------------------------------------------------
\* Rebase engine
\* ------------------------------------------------------------------------
RebaseThrows(branchId, ontoBranchId, error, count) ==
  [op |-> "rebaseBranch", outcome |-> "error", error |-> error,
   branchId |-> branchId, ontoBranchId |-> ontoBranchId, conflictCount |-> count]

RebaseReturns(branchId, ontoBranchId, operation, mergeBase, rebased, newHead, count) ==
  [op |-> "rebaseBranch", outcome |-> "ok", operation |-> operation,
   branchId |-> branchId, ontoBranchId |-> ontoBranchId,
   mergeBaseCommitId |-> mergeBase, rebasedCommitId |-> rebased,
   newBranchHeadCommitId |-> newHead, appliedFileCount |-> count]

\* (mutant) rebaseBranch goes on to the patch whatever getConflicts returned
rebaseStage_IgnoreConflicts(mergeBase, branchHead, ontoHead, conflicts) ==
  IF mergeBase = ontoHead THEN "already_up_to_date"
  ELSE IF mergeBase = branchHead THEN "fast_forward"
  ELSE "patch"

\* (mutant) the fast-forward test comes before the up-to-date test
rebaseStage_FastForwardFirst(mergeBase, branchHead, ontoHead, conflicts) ==
  IF mergeBase = branchHead THEN "fast_forward"
  ELSE IF mergeBase = ontoHead THEN "already_up_to_date"
  ELSE IF conflicts # {} THEN "blocked"
  ELSE "patch"

\* the way rebaseBranch takes once the merge base is known (getConflicts is
\* called only when neither fast path applies)
rebaseStage(mergeBase, branchHead, ontoHead, conflicts) ==
  IF mergeBase = ontoHead THEN "already_up_to_date"
  ELSE IF mergeBase = branchHead THEN "fast_forward"
  ELSE IF conflicts # {} THEN "blocked"
  ELSE "patch"

\* (mutant) the rebased commit is created on the branch's own head
rebaseApply_OnBranchHead(branchId, ontoBranchId, mergeBase, patch) ==
  LET repositoryId == branches[branchId].repositoryId
      branchHead == branches[branchId].headCommitId
      newId == Len(commits) + 1
      newCommits == Append(commits, createCommitRow(repositoryId, branchHead, Undefined))
      w == writeFilesFrom(newCommits, files, newId, patch)
  IN Outcome(repositories, BranchesWithHead(branches, branchId, newId),
             newCommits, w.files,
             RebaseReturns(branchId, ontoBranchId, "rebased", mergeBase,
                           newId, newId, Len(patch)))

\* (mutant) an empty patch still gets its commit
rebaseApply_EmptyPatchCommit(branchId, ontoBranchId, mergeBase, patch) ==
  LET repositoryId == branches[branchId].repositoryId
      ontoHead == branches[ontoBranchId].headCommitId
      newId == Len(commits) + 1
      newCommits == Append(commits, createCommitRow(repositoryId, ontoHead, Undefined))
      w == writeFilesFrom(newCommits, files, newId, patch)
  IN Outcome(repositories, BranchesWithHead(branches, branchId, newId),
             newCommits, w.files,
             RebaseReturns(branchId, ontoBranchId,
                           IF patch = <<>> THEN "fast_forward" ELSE "rebased",
                           mergeBase, Null, newId, Len(patch)))

\* rebaseBranch from "Compute minimal patch to apply" on
rebaseApply(branchId, ontoBranchId, mergeBase, patch) ==
  LET repositoryId == branches[branchId].repositoryId
      branchHead == branches[branchId].headCommitId
      ontoHead == branches[ontoBranchId].headCommitId
      e == createCommitError(repositoryId, ontoHead, Undefined)
      newId == Len(commits) + 1
      newCommits == Append(commits, createCommitRow(repositoryId, ontoHead, Undefined))
      w == writeFilesFrom(newCommits, files, newId, patch)
  IN IF patch = <<>>
     THEN Outcome(repositories, BranchesWithHead(branches, branchId, ontoHead),
                  commits, files,
                  RebaseReturns(branchId, ontoBranchId, "fast_forward", mergeBase,
                                Null, ontoHead, 0))
     ELSE IF e # "none"
          THEN Unchanged(RebaseThrows(branchId, ontoBranchId, e, 0))
          ELSE IF w.error # "none"
               THEN Outcome(repositories, branches, newCommits, w.files,
                            RebaseThrows(branchId, ontoBranchId, w.error, 0))
               ELSE Outcome(repositories, BranchesWithHead(branches, branchId, newId),
                            newCommits, w.files,
                            RebaseReturns(branchId, ontoBranchId, "rebased", mergeBase,
                                          newId, newId, Len(patch)))

rebaseWithBase(branchId, ontoBranchId, mergeBase) ==
  LET branchHead == branches[branchId].headCommitId
      ontoHead == branches[ontoBranchId].headCommitId
  IN UNION {
       LET stage == rebaseStage(mergeBase, branchHead, ontoHead, cr.conflicts) IN
       IF stage = "already_up_to_date"
       THEN {Unchanged(RebaseReturns(branchId, ontoBranchId, "already_up_to_date",
                                     mergeBase, Null, branchHead, 0))}
       ELSE IF stage = "fast_forward"
       THEN {Outcome(repositories, BranchesWithHead(branches, branchId, ontoHead),
                     commits, files,
                     RebaseReturns(branchId, ontoBranchId, "fast_forward", mergeBase,
                                   Null, ontoHead, 0))}
       ELSE IF stage = "blocked"
       THEN {Unchanged(RebaseThrows(branchId, ontoBranchId, "RebaseBlocked",
                                    Cardinality(cr.conflicts)))}
       ELSE {rebaseApply(branchId, ontoBranchId, mergeBase,
                         RebasePatch(b, o, s)) :
               b \in CommitSnapshotsWithContent(mergeBase),
               o \in CommitSnapshotsWithContent(ontoHead),
               s \in CommitSnapshotsWithContent(branchHead)}
       : cr \in GetConflictsResults(branchHead, ontoHead)}

\* (mutant) the heads are tested before the self-rebase
rebaseBranchOutcomes_HeadsFirst(branchId, ontoBranchId) ==
  IF branchId \notin BranchIds \/ ontoBranchId \notin BranchIds
  THEN {Unchanged(RebaseThrows(branchId, ontoBranchId, "UnknownBranch", 0))}
  ELSE IF branches[branchId].repositoryId # branches[ontoBranchId].repositoryId
  THEN {Unchanged(RebaseThrows(branchId, ontoBranchId, "CrossRepositoryReference", 0))}
  ELSE IF branches[branchId].headCommitId = Null \/ branches[ontoBranchId].headCommitId = Null
  THEN {Unchanged(RebaseThrows(branchId, ontoBranchId, "EmptyBranch", 0))}
  ELSE IF branchId = ontoBranchId
  THEN {Unchanged(RebaseReturns(branchId, ontoBranchId, "noop",
                                branches[branchId].headCommitId, Null,
                                branches[branchId].headCommitId, 0))}
  ELSE IF getMergeBaseError(branches[branchId].headCommitId,
                            branches[ontoBranchId].headCommitId) # "none"
  THEN {Unchanged(RebaseThrows(branchId, ontoBranchId,
                               getMergeBaseError(branches[branchId].headCommitId,
                                                 branches[ontoBranchId].headCommitId), 0))}
  ELSE UNION {rebaseWithBase(branchId, ontoBranchId, mb) :
                mb \in MergeBaseCandidates(branches[branchId].headCommitId,
                                           branches[ontoBranchId].headCommitId)}

rebaseBranchOutcomes(branchId, ontoBranchId) ==
  IF branchId \notin BranchIds \/ ontoBranchId \notin BranchIds
  THEN {Unchanged(RebaseThrows(branchId, ontoBranchId, "UnknownBranch", 0))}
  ELSE IF branches[branchId].repositoryId # branches[ontoBranchId].repositoryId
  THEN {Unchanged(RebaseThrows(branchId, ontoBranchId, "CrossRepositoryReference", 0))}
  ELSE IF branchId = ontoBranchId
  THEN {Unchanged(RebaseReturns(branchId, ontoBranchId, "noop",
                                branches[branchId].headCommitId, Null,
                                branches[branchId].headCommitId, 0))}
  ELSE IF branches[branchId].headCommitId = Null \/ branches[ontoBranchId].headCommitId = Null
  THEN {Unchanged(RebaseThrows(branchId, ontoBranchId, "EmptyBranch", 0))}
  ELSE IF getMergeBaseError(branches[branchId].headCommitId,
                            branches[ontoBranchId].headCommitId) # "none"
  THEN {Unchanged(RebaseThrows(branchId, ontoBranchId,
                               getMergeBaseError(branches[branchId].headCommitId,
                                                 branches[ontoBranchId].headCommitId), 0))}
  ELSE UNION {rebaseWithBase(branchId, ontoBranchId, mb) :
                mb \in MergeBaseCandidates(branches[branchId].headCommitId,
                                           branches[ontoBranchId].headCommitId)}

rebaseBranch(branchId, ontoBranchId) ==
  \E out \in rebaseBranchOutcomes(branchId, ontoBranchId) : Leaves(out)

\* ------------------------------------------------------------------------
\* Merge finalizer
\* ------------------------------------------------------------------------
FinalizeThrows(commitId, targetBranchId, error, count) ==
  [op |-> "finalizeCommit", outcome |-> "error", error |-> error,
   commitId |-> commitId, targetBranchId |-> targetBranchId, missingCount |-> count]

FinalizeReturns(commitId, targetBranchId, operation, mergeBase, count) ==
  [op |-> "finalizeCommit", outcome |-> "ok", operation |-> operation,
   commitId |-> commitId, targetBranchId |-> targetBranchId,
   mergeBaseCommitId |-> mergeBase,
   newTargetHeadCommitId |-> IF targetBranchId = Undefined THEN Null ELSE commitId,
   appliedFileCount |-> count]

\* (mutant) finalizeCommit never moves a head
FinalizedBranches_Unchanged(commitId, targetBranchId) == branches

\* the head the target branch gets: updateBranchHead only with a target
FinalizedBranches(commitId, targetBranchId) ==
  IF targetBranchId = Undefined THEN branches
  ELSE BranchesWithHead(branches, targetBranchId, commitId)

\* (mutant) the branch context without the comparison of parent and head
finalizeContextError_NoHeadCheck(commitId, targetBranchId) ==
  IF targetBranchId = Undefined THEN "none"
  ELSE IF targetBranchId \notin BranchIds THEN "UnknownBranch"
  ELSE IF branches[targetBranchId].repositoryId # commits[commitId].repositoryId
       THEN "CrossRepositoryReference"
  ELSE "none"

\* finalizeCommit: the error of the branch context, "none" without one
finalizeContextError(commitId, targetBranchId) ==
  IF targetBranchId = Undefined THEN "none"
  ELSE IF targetBranchId \notin BranchIds THEN "UnknownBranch"
  ELSE IF branches[targetBranchId].repositoryId # commits[commitId].repositoryId
       THEN "CrossRepositoryReference"
  ELSE IF commits[commitId].parentCommitId = Null
       THEN (IF branches[targetBranchId].headCommitId # Null
             THEN "HeadMismatch" ELSE "none")
  ELSE IF commits[commitId].parentCommitId # branches[targetBranchId].headCommitId
       THEN "HeadMismatch"
  ELSE "none"

\* (mutant) the operation without the already_up_to_date case
finalizeOperation_NeverUpToDate(mergeBase, mergedFromCommitId, conflicts) ==
  IF conflicts # {} THEN "merged_with_conflicts_resolved" ELSE "merged"

finalizeOperation(mergeBase, mergedFromCommitId, conflicts) ==
  IF mergeBase = mergedFromCommitId THEN "already_up_to_date"
  ELSE IF conflicts # {} THEN "merged_with_conflicts_resolved"
  ELSE "merged"

\* finalizeCommit from "Compute files to apply" on
finalizeApply(commitId, targetBranchId, mergeBase, conflicts, patch) ==
  LET w == writeFilesFrom(commits, files, commitId, patch) IN
  IF w.error # "none"
  THEN Outcome(repositories, branches, commits, w.files,
               FinalizeThrows(commitId, targetBranchId, w.error, 0))
  ELSE Outcome(repositories, FinalizedBranches(commitId, targetBranchId),
               commits, w.files,
               FinalizeReturns(commitId, targetBranchId,
                               finalizeOperation(mergeBase,
                                                 commits[commitId].mergedFromCommitId,
                                                 conflicts),
                               mergeBase, Len(patch)))

\* the full merge flow, for one answer of getMergeBase
finalizeWithBase(commitId, targetBranchId, branchHead, mergeBase) ==
  LET mergedFrom == commits[commitId].mergedFromCommitId
      userWritePaths == {f.path : f \in {g \in files : g.commitId = commitId}}
  IN UNION {
       IF \E c \in cr.conflicts : c.path \notin userWritePaths
       THEN {Unchanged(FinalizeThrows(commitId, targetBranchId, "UnresolvedConflicts",
                         Cardinality({c \in cr.conflicts : c.path \notin userWritePaths})))}
       ELSE {finalizeApply(commitId, targetBranchId, mergeBase, cr.conflicts,
                           FinalizePatch(b, t, s, userWritePaths)) :
               b \in CommitSnapshotsWithContent(mergeBase),
               t \in CommitSnapshotsWithContent(branchHead),
               s \in CommitSnapshotsWithContent(mergedFrom)}
       : cr \in GetConflictsResults(branchHead, mergedFrom)}

finalizeCommitOutcomes(commitId, targetBranchId) ==
  IF commitId \notin CommitIds
  THEN {Unchanged(FinalizeThrows(commitId, targetBranchId, "UnknownCommit", 0))}
  ELSE IF finalizeContextError(commitId, targetBranchId) # "none"
  THEN {Unchanged(FinalizeThrows(commitId, targetBranchId,
                                 finalizeContextError(commitId, targetBranchId), 0))}
  ELSE LET parent == commits[commitId].parentCommitId
           mergedFrom == commits[commitId].mergedFromCommitId
           branchHead == IF targetBranchId = Undefined THEN parent
                         ELSE branches[targetBranchId].headCommitId
       IN IF mergedFrom = Null
          THEN {Outcome(repositories, FinalizedBranches(commitId, targetBranchId),
                        commits, files,
                        FinalizeReturns(commitId, targetBranchId, "fast_forward",
                                        parent, 0))}
          ELSE IF getMergeBaseError(branchHead, mergedFrom) # "none"
          THEN {Unchanged(FinalizeThrows(commitId, targetBranchId,
                                         getMergeBaseError(branchHead, mergedFrom), 0))}
          ELSE UNION {finalizeWithBase(commitId, targetBranchId, branchHead, mb) :
                        mb \in MergeBaseCandidates(branchHead, mergedFrom)}

finalizeCommit(commitId, targetBranchId) ==
  \E out \in finalizeCommitOutcomes(commitId, targetBranchId) : Leaves(out)

\* ------------------------------------------------------------------------
\* Convenience workflows
\* ------------------------------------------------------------------------
\* commitToBranch: getBranchById, createCommit on the head read, writeFiles,
\* updateBranchHead; each statement commits on its own
commitToBranchOutcome(branchId, fileList) ==
  IF branchId \notin BranchIds
  THEN Unchanged([op |-> "commitToBranch", outcome |-> "error",
                  error |-> "UnknownBranch", branchId |-> branchId])
  ELSE LET repositoryId == branches[branchId].repositoryId
           head == branches[branchId].headCommitId
           e == createCommitError(repositoryId, head, Undefined)
           newId == Len(commits) + 1
           newCommits == Append(commits, createCommitRow(repositoryId, head, Undefined))
           w == writeFilesFrom(newCommits, files, newId, fileList)
       IN IF e # "none"
          THEN Unchanged([op |-> "commitToBranch", outcome |-> "error",
                          error |-> e, branchId |-> branchId])
          ELSE IF w.error # "none"
               THEN Outcome(repositories, branches, newCommits, w.files,
                            [op |-> "commitToBranch", outcome |-> "error",
                             error |-> w.error, branchId |-> branchId])
               ELSE Outcome(repositories, BranchesWithHead(branches, branchId, newId),
                            newCommits, w.files,
                            [op |-> "commitToBranch", outcome |-> "ok",
                             branchId |-> branchId, commitId |-> newId])

commitToBranch(branchId, fileList) == Leaves(commitToBranchOutcome(branchId, fileList))

\* files.map((f) => ({ ...f, isSymlink: false, isDeleted: false }))
InitialFiles(fileList) ==
  [i \in DOMAIN fileList |->
     [fileList[i] EXCEPT !.isSymlink = FALSE, !.isDeleted = FALSE]]

\* initRepository: createRepository, createCommit with a null parent (the
\* new repository has no commit, so the insert passes), writeFiles,
\* updateBranchHead
initRepositoryOutcome(repoName, fileList) ==
  IF RepoNameTaken(repoName)
  THEN Unchanged([op |-> "initRepository", outcome |-> "error",
                  error |-> "DuplicateName"])
  ELSE LET repositoryId == Len(repositories) + 1
           branchId == Len(branches) + 1
           newId == Len(commits) + 1
           newRepositories == Append(repositories,
                                [name |-> repoName, defaultBranchId |-> branchId])
           newBranches == Append(branches,
                            [repositoryId |-> repositoryId, name |-> "main",
                             headCommitId |-> Null])
           newCommits == Append(commits,
                           [repositoryId |-> repositoryId, parentCommitId |-> Null,
                            mergedFromCommitId |-> Null])
           w == writeFilesFrom(newCommits, files, newId, InitialFiles(fileList))
       IN IF w.error # "none"
          THEN Outcome(newRepositories, newBranches, newCommits, w.files,
                       [op |-> "initRepository", outcome |-> "error",
                        error |-> w.error])
          ELSE Outcome(newRepositories, BranchesWithHead(newBranches, branchId, newId),
                       newCommits, w.files,
                       [op |-> "initRepository", outcome |-> "ok",
                        repositoryId |-> repositoryId, branchId |-> branchId,
                        commitId |-> newId])

initRepository(repoName, fileList) == Leaves(initRepositoryOutcome(repoName, fileList))

\* ------------------------------------------------------------------------
\* Graph-level specification: registry, commit graph and merge base over
\* two repositories, no file deltas
\* ------------------------------------------------------------------------
\* the callers that run at the same time, and a caller with no call open
Clients == {1, 2}
NoCall == [op |-> "none"]

\* no transaction is open on the connection
NoSession == [committed |-> <<>>, statements |-> <<>>, savepoints |-> <<>>,
              sent |-> <<>>]
NoTransaction ==
  /\ savepointCounter = 0
  /\ session = NoSession
  /\ frames = <<>>

Init ==
  /\ repositories = <<>>
  /\ branches = <<>>
  /\ commits = <<>>
  /\ files = {}
  /\ res = [op |-> "none", outcome |-> "ok"]
  /\ pc = [k \in Clients |-> "idle"]
  /\ loc = [k \in Clients |-> NoCall]
  /\ acked = {}
  /\ NoTransaction

RepoNames == {"r1", "r2"}
BranchNames == {"main", "feature"}

NextGraph ==
  \/ \E name \in RepoNames : createRepository(name)
  \/ \E r \in RepoIds, name \in BranchNames, h \in {Undefined} \cup CommitIds :
       Len(branches) < MaxGraphBranches /\ createBranch(r, name, h)
  \/ \E b \in BranchIds, c \in CommitIds : updateBranchHead(b, c)
  \/ \E r \in RepoIds, p \in {Undefined, Null} \cup 1..(Len(commits) + 1),
        m \in {Null} \cup CommitIds :
       Len(commits) < MaxGraphCommits /\ createCommit(r, p, m)

SpecGraph == Init /\ [][NextGraph]_vars

\* ------------------------------------------------------------------------
\* Merge-base specification: the commit graphs of one repository, built by
\* createCommit with every parent and merged-from commit, and getMergeBase
\* on every pair of commits
\* ------------------------------------------------------------------------
NextMergeBase ==
  \/ Len(repositories) < 1 /\ createRepository("r1")
  \/ \E r \in RepoIds, p \in {Undefined, Null} \cup CommitIds, m \in {Null} \cup CommitIds :
       Len(commits) < MaxMergeCommits /\ createCommit(r, p, m)
  \/ \E l \in CommitIds, r \in CommitIds : getMergeBase(l, r)

SpecMergeBase == Init /\ [][NextMergeBase]_vars

\* ------------------------------------------------------------------------
\* File-level specification: one repository, commits with file deltas,
\* conflicts, rebase and merge
\* ------------------------------------------------------------------------
FileArgs(path, content, isSymlink, isDeleted) ==
  [path |-> path, content |-> content, isSymlink |-> isSymlink,
   isDeleted |-> isDeleted, previousPath |-> NoPath]

PathA == <<"/", "a">>
PathB == <<"b">>
BadPath == <<":">>

WriteA == FileArgs(PathA, <<"x">>, FALSE, FALSE)
RewriteA == FileArgs(PathA, <<"/", "b">>, FALSE, FALSE)
LinkA == FileArgs(PathA, <<"b">>, TRUE, FALSE)
DeleteA == FileArgs(PathA, <<>>, FALSE, TRUE)
WriteB == FileArgs(PathB, <<"x">>, FALSE, FALSE)
WriteBad == FileArgs(BadPath, <<"x">>, FALSE, FALSE)

Batches ==
  {<<WriteA>>, <<RewriteA>>, <<LinkA>>, <<DeleteA>>, <<WriteB>>,
   <<WriteB, WriteBad>>}

InitialBatches == {<<WriteA>>, <<>>, <<WriteA, WriteBad>>}

\* the head of a branch, for the calls made on behalf of a branch
HeadOf(branchId) == branches[branchId].headCommitId

Next ==
  \/ createRepository("r1")
  \/ \E fileList \in InitialBatches : initRepository("r1", fileList)
  \/ \E r \in RepoIds, h \in {Undefined} \cup CommitIds : createBranch(r, "feature", h)
  \/ \E b \in BranchIds, fileList \in Batches :
       Len(commits) < MaxCommits /\ commitToBranch(b, fileList)
  \/ \E b \in BranchIds, o \in BranchIds :
       Len(commits) <= MaxCommits /\ rebaseBranch(b, o)
  \/ \E b \in BranchIds, o \in BranchIds : getConflicts(HeadOf(b), HeadOf(o))

Spec == Init /\ [][Next]_vars

\* ------------------------------------------------------------------------
\* Interleaving specification: two callers, one step per awaited statement
\* of createCommit and commitToBranch (no statement runs in a transaction
\* opened by these functions)
\* ------------------------------------------------------------------------
\* the statement createCommit runs first, by its parentCommitId argument
createCommitEntry(parentCommitId) ==
  IF parentCommitId = Undefined THEN "cc_default"
  ELSE IF parentCommitId # Null THEN "cc_parent"
  ELSE "cc_insert"

\* the call ends: the caller is idle again and res holds what it got
Returns(k, result) ==
  /\ pc' = [pc EXCEPT ![k] = "idle"]
  /\ loc' = [loc EXCEPT ![k] = NoCall]
  /\ res' = result

createCommitThrows(k, error) ==
  Returns(k, [op |-> loc[k].op, outcome |-> "error", error |-> error, client |-> k,
              parentCommitId |-> loc[k].parentCommitId])

\* createCommit(repositoryId, message, parentCommitId) is called
callCreateCommit(k, repositoryId, parentCommitId) ==
  /\ pc[k] = "idle"
  /\ pc' = [pc EXCEPT ![k] = createCommitEntry(parentCommitId)]
  /\ loc' = [loc EXCEPT ![k] =
               [op |-> "createCommit", repositoryId |-> repositoryId,
                parentCommitId |-> parentCommitId,
                resolvedParentCommitId |->
                  IF parentCommitId = Undefined THEN Null ELSE parentCommitId]]
  /\ UNCHANGED <<repositories, branches, commits, files, res, acked, txvars>>

\* createCommit: the select of the default branch head
ccDefault(k) ==
  /\ pc[k] = "cc_default"
  /\ IF DefaultBranchHead(loc[k].repositoryId) # Null
     THEN /\ loc' = [loc EXCEPT ![k].resolvedParentCommitId =
                       DefaultBranchHead(loc[k].repositoryId)]
          /\ pc' = [pc EXCEPT ![k] = "cc_parent"]
     ELSE /\ pc' = [pc EXCEPT ![k] = "cc_exists"]
          /\ UNCHANGED loc
  /\ UNCHANGED <<repositories, branches, commits, files, res, acked, txvars>>

\* createCommit: the select commitExists
ccExists(k) ==
  /\ pc[k] = "cc_exists"
  /\ IF CommitExistsIn(loc[k].repositoryId)
     THEN createCommitThrows(k, "AmbiguousParent")
     ELSE /\ pc' = [pc EXCEPT ![k] = "cc_insert"]
          /\ UNCHANGED <<loc, res>>
  /\ UNCHANGED <<repositories, branches, commits, files, acked, txvars>>

\* createCommit: the select parentRow
ccParent(k) ==
  /\ pc[k] = "cc_parent"
  /\ IF ParentInRepository(loc[k].repositoryId, loc[k].resolvedParentCommitId)
     THEN /\ pc' = [pc EXCEPT ![k] = "cc_insert"]
          /\ UNCHANGED <<loc, res>>
     ELSE createCommitThrows(k, "CrossRepositoryReference")
  /\ UNCHANGED <<repositories, branches, commits, files, acked, txvars>>

\* createCommit: the insert; inside commitToBranch the caller goes on to
\* writeFiles with the new commit
ccInsert(k) ==
  LET row == [repositoryId |-> loc[k].repositoryId,
              parentCommitId |-> loc[k].resolvedParentCommitId,
              mergedFromCommitId |-> Null]
  IN /\ pc[k] = "cc_insert"
     /\ IF ~InsertCommitOk(row)
        THEN /\ createCommitThrows(k, "ConstraintViolation")
             /\ UNCHANGED commits
        ELSE /\ commits' = Append(commits, row)
             /\ IF loc[k].op = "commitToBranch"
                THEN /\ pc' = [pc EXCEPT ![k] = "ctb_write"]
                     /\ loc' = [loc EXCEPT ![k].commitId = Len(commits) + 1]
                     /\ UNCHANGED res
                ELSE Returns(k, [op |-> "createCommit", outcome |-> "ok",
                                 client |-> k, id |-> Len(commits) + 1])
     /\ UNCHANGED <<repositories, branches, files, acked, txvars>>

\* commitToBranch: getBranchById, then the call of createCommit with the
\* head it read
callCommitToBranch(k, branchId, fileList) ==
  /\ pc[k] = "idle"
  /\ IF branchId \notin BranchIds
     THEN /\ res' = [op |-> "commitToBranch", outcome |-> "error",
                     error |-> "UnknownBranch", client |-> k]
          /\ UNCHANGED <<pc, loc>>
     ELSE /\ pc' = [pc EXCEPT ![k] = createCommitEntry(HeadOf(branchId))]
          /\ loc' = [loc EXCEPT ![k] =
                       [op |-> "commitToBranch", branchId |-> branchId,
                        repositoryId |-> branches[branchId].repositoryId,
                        parentCommitId |-> HeadOf(branchId),
                        resolvedParentCommitId |-> HeadOf(branchId),
                        fileList |-> fileList, commitId |-> Null]]
          /\ UNCHANGED res
  /\ UNCHANGED <<repositories, branches, commits, files, acked, txvars>>

\* commitToBranch: writeFiles, one writeFile a step
ctbWrite(k) ==
  /\ pc[k] = "ctb_write"
  /\ IF loc[k].fileList = <<>>
     THEN /\ pc' = [pc EXCEPT ![k] = "ctb_head"]
          /\ UNCHANGED <<loc, res, files>>
     ELSE LET e == writeFileError(commits, files, loc[k].commitId, Head(loc[k].fileList))
          IN IF e # "none"
             THEN /\ Returns(k, [op |-> "commitToBranch", outcome |-> "error",
                                 error |-> e, client |-> k])
                  /\ UNCHANGED files
             ELSE /\ files' = files \cup
                                {writeFileRow(loc[k].commitId, Head(loc[k].fileList))}
                  /\ loc' = [loc EXCEPT ![k].fileList = Tail(loc[k].fileList)]
                  /\ UNCHANGED <<pc, res>>
  /\ UNCHANGED <<repositories, branches, commits, acked, txvars>>

\* commitToBranch: updateBranchHead, then the return of the commit
ctbHead(k) ==
  /\ pc[k] = "ctb_head"
  /\ branches' = BranchesWithHead(branches, loc[k].branchId, loc[k].commitId)
  /\ acked' = acked \cup {<<loc[k].branchId, loc[k].commitId>>}
  /\ UNCHANGED txvars
  /\ Returns(k, [op |-> "commitToBranch", outcome |-> "ok", client |-> k,
                 branchId |-> loc[k].branchId, commitId |-> loc[k].commitId])
  /\ UNCHANGED <<repositories, commits, files>>

ConcBatches == {<<WriteA>>, <<WriteB, WriteBad>>}

NextConc ==
  \/ createRepository("r1")
  \/ \E k \in Clients, r \in RepoIds, p \in {Undefined, Null} \cup CommitIds :
       Len(commits) < MaxConcCommits /\ callCreateCommit(k, r, p)
  \/ \E k \in Clients : ccDefault(k)
  \/ \E k \in Clients : ccExists(k)
  \/ \E k \in Clients : ccParent(k)
  \/ \E k \in Clients : ccInsert(k)
  \/ \E k \in Clients, b \in BranchIds, fileList \in ConcBatches :
       Len(commits) < MaxConcCommits /\ callCommitToBranch(k, b, fileList)
  \/ \E k \in Clients : ctbWrite(k)
  \/ \E k \in Clients : ctbHead(k)

SpecConc == Init /\ [][NextConc]_vars

\* ------------------------------------------------------------------------
\* Merge specification: one repository; commits are prepared with
\* createCommit and writeFile and published with finalizeCommit
\* ------------------------------------------------------------------------
\* a commit no branch head reaches over parent links: still being prepared
Unpublished(commitId) ==
  \A b \in BranchIds : \A row \in CommitTree(HeadOf(b), 0) : row[1] # commitId

\* the commit the caller is preparing: the last one created
Prepared == Len(commits)

\* what commitToBranch is given: the root writes /a, later commits change
\* /a or add /b
MergeBatches ==
  IF commits = <<>> THEN {<<WriteA>>}
  ELSE {<<RewriteA>>, <<DeleteA>>, <<WriteB>>}

\* the merged-from argument of createCommit: none for the root, else the
\* root or a head
MergeSources ==
  IF commits = <<>> THEN {Null}
  ELSE {c \in CommitIds : c = 1 \/ \E b \in BranchIds : HeadOf(b) = c}

Resolutions == {WriteA, DeleteA}

\* the feature branch is created before the second commit; createCommit
\* prepares the root or, after MaxPublishedCommits commits, a merge
NextMerge ==
  \/ repositories = <<>> /\ createRepository("r1")
  \/ \E r \in RepoIds :
       Len(branches) < 2 /\ Len(commits) <= 1 /\ createBranch(r, "feature", Undefined)
  \/ \E b \in BranchIds, fileList \in MergeBatches :
       Len(commits) < MaxPublishedCommits /\ commitToBranch(b, fileList)
  \/ \E b \in BranchIds, m \in MergeSources :
       /\ Len(commits) \in {0, MaxPublishedCommits}
       /\ Prepared > 0 => ~Unpublished(Prepared)
       /\ createCommit(branches[b].repositoryId, HeadOf(b), m)
  \/ \E file \in Resolutions :
       /\ Prepared > 0 /\ Unpublished(Prepared)
       /\ writeFile(Prepared, file)
  \/ \E t \in {Undefined} \cup BranchIds :
       Prepared > 0 /\ finalizeCommit(Prepared, t)

SpecMerge == Init /\ [][NextMerge]_vars

\* merges of whole commits (no resolutions written by the caller) and
\* rebaseBranch between the branches
NextMergeRebase ==
  \/ repositories = <<>> /\ createRepository("r1")
  \/ \E r \in RepoIds :
       Len(branches) < 2 /\ Len(commits) <= 1 /\ createBranch(r, "feature", Undefined)
  \/ \E b \in BranchIds, fileList \in MergeBatches :
       Len(commits) < MaxPublishedCommits /\ commitToBranch(b, fileList)
  \/ \E b \in BranchIds, m \in MergeSources :
       /\ Len(commits) = MaxPublishedCommits
       /\ ~Unpublished(Prepared)
       /\ createCommit(branches[b].repositoryId, HeadOf(b), m)
  \/ \E t \in BranchIds :
       Prepared > 0 /\ Unpublished(Prepared) /\ finalizeCommit(Prepared, t)
  \/ \E b \in BranchIds, o \in BranchIds :
       Len(commits) <= MaxPublishedCommits + 1 /\ rebaseBranch(b, o)

SpecMergeRebase == Init /\ [][NextMergeRebase]_vars

\* ------------------------------------------------------------------------
\* File history specification: a chain of commits of one repository, the
\* latest commit written with writeFile, moveFile and deleteFile, and every
\* commit read with readFile, getCommitSnapshot and getFileHistory
\* ------------------------------------------------------------------------
\* a tombstone passed with content and with the symlink flag
DeleteLinkB == FileArgs(PathB, <<"x">>, TRUE, TRUE)

FileWrites == {WriteA, LinkA, WriteB, DeleteLinkB}

ReadPaths == {PathA, PathB}

\* no prefix, the prefix of one stored path, and a prefix of no stored path
Prefixes == {NoPath, PathA, <<"_">>}

NextFiles ==
  \/ repositories = <<>> /\ createRepository("r1")
  \/ \E r \in RepoIds :
       /\ Len(commits) < MaxFileCommits
       /\ createCommit(r, IF commits = <<>> THEN Null ELSE Len(commits), Null)
  \/ \E file \in FileWrites : Prepared > 0 /\ writeFile(Prepared, file)
  \/ \E fromPath \in ReadPaths, toPath \in ReadPaths :
       /\ Prepared > 0 /\ fromPath # toPath
       /\ moveFile(Prepared, fromPath, toPath, <<"y">>, FALSE)
  \/ \E path \in ReadPaths : Prepared > 0 /\ deleteFile(Prepared, path)
  \/ \E c \in CommitIds, path \in ReadPaths : readFile(c, path)
  \/ \E c \in CommitIds, pathPrefix \in Prefixes : getCommitSnapshot(c, pathPrefix)
  \/ \E c \in CommitIds, path \in ReadPaths : getFileHistory(c, path)

SpecFiles == Init /\ [][NextFiles]_vars

\* ------------------------------------------------------------------------
\* Path specification: normalizePath applied to every string of up to
\* MaxPathChars characters, and again to what it returned
\* ------------------------------------------------------------------------
PathAlphabet == {"/", "\\", "a", " ", ":"}

PathInputs == UNION {[1..n -> PathAlphabet] : n \in 0..MaxPathChars}

normalizePath(input, path, applied) ==
  /\ res' = IF normalizePathOk(path)
            THEN [op |-> "normalizePath", outcome |-> "ok", input |-> input,
                  path |-> path, value |-> normalizePathValue(path),
                  applied |-> applied + 1]
            ELSE [op |-> "normalizePath", outcome |-> "error",
                  error |-> "InvalidPath", input |-> input, path |-> path,
                  value |-> path, applied |-> applied + 1]
  /\ UNCHANGED <<repositories, branches, commits, files, pc, loc, acked, txvars>>

InitPaths ==
  /\ repositories = <<>>
  /\ branches = <<>>
  /\ commits = <<>>
  /\ files = {}
  /\ \E path \in PathInputs :
       res = [op |-> "input", outcome |-> "ok", input |-> path, path |-> path,
              value |-> path, applied |-> 0]
  /\ pc = [k \in Clients |-> "idle"]
  /\ loc = [k \in Clients |-> NoCall]
  /\ acked = {}
  /\ NoTransaction

\* the caller passes on what normalizePath returned
NextPaths ==
  /\ res.outcome = "ok"
  /\ res.applied < MaxApplications
  /\ normalizePath(res.input, res.value, res.applied)

SpecPaths == InitPaths /\ [][NextPaths]_vars

\* ------------------------------------------------------------------------
\* Finalize interleaving specification: two callers publish prepared
\* commits (no merged-from) with finalizeCommit, one step per awaited
\* statement that reads or writes the branch
\* ------------------------------------------------------------------------
\* finalizeCommit(commitId, targetBranchId) is called; the select of the
\* commit row reads columns that never change
callFinalizeCommit(k, commitId, targetBranchId) ==
  /\ pc[k] = "idle"
  /\ commitId \in CommitIds
  /\ commits[commitId].mergedFromCommitId = Null
  /\ pc' = [pc EXCEPT ![k] = "fc_branch"]
  /\ loc' = [loc EXCEPT ![k] =
               [op |-> "finalizeCommit", commitId |-> commitId,
                targetBranchId |-> targetBranchId]]
  /\ UNCHANGED <<repositories, branches, commits, files, res, acked, txvars>>

\* finalizeCommit: the select of the branch row and the comparison of its
\* head with the parent of the commit
fcBranch(k) ==
  LET e == finalizeContextError(loc[k].commitId, loc[k].targetBranchId) IN
  /\ pc[k] = "fc_branch"
  /\ IF e # "none"
     THEN Returns(k, [op |-> "finalizeCommit", outcome |-> "error", error |-> e,
                      client |-> k, commitId |-> loc[k].commitId,
                      targetBranchId |-> loc[k].targetBranchId])
     ELSE /\ pc' = [pc EXCEPT ![k] = "fc_head"]
          /\ UNCHANGED <<loc, res>>
  /\ UNCHANGED <<repositories, branches, commits, files, acked, txvars>>

\* finalizeCommit: updateBranchHead and the fast_forward result
fcHead(k) ==
  /\ pc[k] = "fc_head"
  /\ branches' = BranchesWithHead(branches, loc[k].targetBranchId, loc[k].commitId)
  /\ acked' = acked \cup {<<loc[k].targetBranchId, loc[k].commitId>>}
  /\ UNCHANGED txvars
  /\ Returns(k, [op |-> "finalizeCommit", outcome |-> "ok",
                 operation |-> "fast_forward", client |-> k,
                 commitId |-> loc[k].commitId,
                 targetBranchId |-> loc[k].targetBranchId])
  /\ UNCHANGED <<repositories, commits, files>>

NextRace ==
  \/ repositories = <<>> /\ createRepository("r1")
  \/ \E b \in BranchIds :
       /\ Len(commits) < MaxRaceCommits
       /\ createCommit(branches[b].repositoryId, HeadOf(b), Null)
  \/ \E k \in Clients, c \in CommitIds, t \in BranchIds : callFinalizeCommit(k, c, t)
  \/ \E k \in Clients : fcBranch(k)
  \/ \E k \in Clients : fcHead(k)

SpecRace == Init /\ [][NextRace]_vars

\* ------------------------------------------------------------------------
\* Published-history specification: commits published on main with
\* commitToBranch, and writeFile called with the id of any commit
\* ------------------------------------------------------------------------
ServedBatches == {<<WriteA>>, <<DeleteA>>, <<WriteB>>}

LateWrites == {WriteA, LinkA, DeleteA, WriteB}

NextServed ==
  \/ repositories = <<>> /\ createRepository("r1")
  \/ \E b \in BranchIds, fileList \in ServedBatches :
       Len(commits) < MaxServedCommits /\ commitToBranch(b, fileList)
  \/ \E c \in CommitIds, file \in LateWrites : writeFile(c, file)

SpecServed == Init /\ [][NextServed]_vars

\* ------------------------------------------------------------------------
\* Transaction specification: one caller runs statements, transactions and
\* nested transactions on one connection; the bodies are awaited one
\* inside the other
\* ------------------------------------------------------------------------
TxStatements == {"s1", "s2"}
TxErrors == {"E1", "E2"}

Top == frames[Len(frames)]
Running == frames # <<>> /\ Top.pc = "body"
Executed == Len(session.committed) + Len(session.statements)

PushFrame(kind, name) ==
  Append(frames, [kind |-> kind, savepointName |-> name,
                  since |-> Len(session.statements), pc |-> "body",
                  error |-> "none"])
PopFrame == SubSeq(frames, 1, Len(frames) - 1)
TopAt(pc_, error) ==
  [frames EXCEPT ![Len(frames)] = [@ EXCEPT !.pc = pc_, !.error = error]]

\* the database: the position of the latest savepoint of a name
SavepointIndex(name) ==
  CHOOSE i \in 1..Len(session.savepoints) :
    /\ session.savepoints[i].name = name
    /\ \A j \in (i + 1)..Len(session.savepoints) : session.savepoints[j].name # name

Sent(statement, name) ==
  Append(session.sent, [statement |-> statement, name |-> name])

\* the database: SAVEPOINT name
AfterSavepoint(name) ==
  [session EXCEPT !.savepoints = Append(@, [name |-> name,
                                            at |-> Len(session.statements)]),
                  !.sent = Sent("SAVEPOINT", name)]

\* the database: RELEASE SAVEPOINT name destroys the savepoint and the
\* ones set after it, and keeps what was executed
AfterRelease(name) ==
  [session EXCEPT !.savepoints = SubSeq(@, 1, SavepointIndex(name) - 1),
                  !.sent = Sent("RELEASE SAVEPOINT", name)]

\* (mutant) the error is rethrown without a rollback
AfterRollbackTo_Nothing(name) == session

\* the database: ROLLBACK TO SAVEPOINT name undoes what was executed after
\* the savepoint, destroys the savepoints set after it and keeps it
AfterRollbackTo(name) ==
  [session EXCEPT !.statements = SubSeq(@, 1, session.savepoints[SavepointIndex(name)].at),
                  !.savepoints = SubSeq(@, 1, SavepointIndex(name)),
                  !.sent = Sent("ROLLBACK TO SAVEPOINT", name)]

TxLeaves(result) ==
  /\ res' = result
  /\ UNCHANGED <<repositories, branches, commits, files, pc, loc, acked>>

\* db.exec / db.query: one statement, in the open transaction if any
exec(statement) ==
  /\ frames = <<>> \/ Running
  /\ Executed < MaxTxStatements
  /\ session' = IF frames = <<>>
                THEN [session EXCEPT !.committed = Append(@, statement)]
                ELSE [session EXCEPT !.statements = Append(@, statement)]
  /\ UNCHANGED <<savepointCounter, frames>>
  /\ TxLeaves([op |-> "exec", outcome |-> "ok", statement |-> statement])

\* createDb(...).transaction(fn): sql.transaction begins a transaction and
\* runs fn on it
transaction ==
  /\ frames = <<>>
  /\ frames' = PushFrame("top", 0)
  /\ UNCHANGED <<savepointCounter, session>>
  /\ TxLeaves([op |-> "transaction", outcome |-> "ok", step |-> "BEGIN",
               savepointName |-> 0])

\* createDbFromTx(tx).transaction(fn), reached by sql.tx inside a running
\* transaction: the savepoint is set and fn runs on the same connection
nestedTransaction ==
  /\ Running
  /\ Len(frames) < MaxTxDepth
  /\ savepointCounter < MaxSavepoints
  /\ savepointCounter' = savepointCounter + 1
  /\ session' = AfterSavepoint(savepointCounter + 1)
  /\ frames' = PushFrame("nested", savepointCounter + 1)
  /\ TxLeaves([op |-> "transaction", outcome |-> "ok", step |-> "SAVEPOINT",
               savepointName |-> savepointCounter + 1])

\* the body of the innermost transaction returns
bodyReturns ==
  /\ Running
  /\ frames' = TopAt("returned", "none")
  /\ UNCHANGED <<savepointCounter, session>>
  /\ TxLeaves([op |-> "body", outcome |-> "ok", savepointName |-> Top.savepointName])

\* the body of the innermost transaction throws: an error of its own, or
\* the error of a nested transaction that it does not catch
bodyThrows(error) ==
  /\ Running
  /\ frames' = TopAt("thrown", error)
  /\ UNCHANGED <<savepointCounter, session>>
  /\ TxLeaves([op |-> "body", outcome |-> "error", error |-> error,
               savepointName |-> Top.savepointName])

\* createDbFromTx: after fn returned, RELEASE SAVEPOINT and the result
releaseSavepoint ==
  /\ frames # <<>> /\ Top.kind = "nested" /\ Top.pc = "returned"
  /\ session' = AfterRelease(Top.savepointName)
  /\ frames' = PopFrame
  /\ UNCHANGED savepointCounter
  /\ TxLeaves([op |-> "transaction", outcome |-> "ok", step |-> "RELEASE SAVEPOINT",
               savepointName |-> Top.savepointName,
               sinceSavepoint |-> Len(session.statements) - Top.since])

\* createDbFromTx: the catch block, ROLLBACK TO SAVEPOINT and throw error
rollbackToSavepoint ==
  /\ frames # <<>> /\ Top.kind = "nested" /\ Top.pc = "thrown"
  /\ session' = AfterRollbackTo(Top.savepointName)
  /\ frames' = PopFrame
  /\ UNCHANGED savepointCounter
  /\ TxLeaves([op |-> "transaction", outcome |-> "error", error |-> Top.error,
               step |-> "ROLLBACK TO SAVEPOINT",
               savepointName |-> Top.savepointName,
               sinceSavepoint |-> Len(session.statements) - Top.since])

\* sql.transaction: fn returned, the transaction is committed
commitTransaction ==
  /\ frames # <<>> /\ Top.kind = "top" /\ Top.pc = "returned"
  /\ session' = [session EXCEPT !.committed = @ \o session.statements,
                                !.statements = <<>>, !.savepoints = <<>>]
  /\ frames' = <<>>
  /\ UNCHANGED savepointCounter
  /\ TxLeaves([op |-> "transaction", outcome |-> "ok", step |-> "COMMIT",
               savepointName |-> 0])

\* sql.transaction: fn threw, the transaction is rolled back
rollbackTransaction ==
  /\ frames # <<>> /\ Top.kind = "top" /\ Top.pc = "thrown"
  /\ session' = [session EXCEPT !.statements = <<>>, !.savepoints = <<>>]
  /\ frames' = <<>>
  /\ UNCHANGED savepointCounter
  /\ TxLeaves([op |-> "transaction", outcome |-> "error", error |-> Top.error,
               step |-> "ROLLBACK", savepointName |-> 0])

NextTx ==
  \/ \E statement \in TxStatements : exec(statement)
  \/ transaction
  \/ nestedTransaction
  \/ bodyReturns
  \/ \E error \in TxErrors : bodyThrows(error)
  \/ releaseSavepoint
  \/ rollbackToSavepoint
  \/ commitTransaction
  \/ rollbackTransaction

SpecTx == Init /\ [][NextTx]_vars

\* ------------------------------------------------------------------------
\* Properties of the commit graph
\* ------------------------------------------------------------------------
SameRepositoryCommit(repositoryId, id) ==
  id # Null => id \in CommitIds /\ commits[id].repositoryId = repositoryId

ReferencesResolve ==
  /\ \A c \in CommitIds :
       /\ SameRepositoryCommit(commits[c].repositoryId, commits[c].parentCommitId)
       /\ SameRepositoryCommit(commits[c].repositoryId, commits[c].mergedFromCommitId)
  /\ \A b \in BranchIds :
       SameRepositoryCommit(branches[b].repositoryId, branches[b].headCommitId)

\* a createCommit step given a parent (not omitted, not null) that is no
\* commit of the repository throws CrossRepositoryReference and inserts nothing
BadParentRejected ==
  \A r \in RepoIds, p \in 1..(Len(commits) + 1), m \in {Null} \cup CommitIds :
    (createCommit(r, p, m) /\ ~(p \in CommitIds /\ commits[p].repositoryId = r))
      => /\ res'.outcome = "error"
         /\ res'.error = "CrossRepositoryReference"
         /\ commits' = commits

\* C4: every non-null parent, merged-from commit and branch head is an
\* existing commit of the same repository, and createCommit with a parent of
\* another repository (or an unknown one) fails with CrossRepositoryReference
\* and inserts nothing
C4_ReferencesInRepository == []ReferencesResolve /\ [][BadParentRejected]_vars

\* C4 witness: a createCommit was refused for its parent while both
\* repositories hold commits
C4_Witness ==
  /\ res.op = "createCommit" /\ res.outcome = "error"
  /\ res.error = "CrossRepositoryReference"
  /\ \E c, d \in CommitIds : commits[c].repositoryId # commits[d].repositoryId

\* the commit n parent links above id (Null above the root)
RECURSIVE ParentSteps(_, _)
ParentSteps(id, n) ==
  IF id \notin CommitIds THEN Null
  ELSE IF n = 0 THEN id ELSE ParentSteps(commits[id].parentCommitId, n - 1)

IsRootOf(repositoryId, id) ==
  /\ id \in CommitIds
  /\ commits[id].repositoryId = repositoryId
  /\ commits[id].parentCommitId = Null

\* commits reached from the set S over parent or merged-from edges in
\* exactly n steps
RECURSIVE Level(_, _)
Level(S, n) ==
  IF n = 0 THEN S
  ELSE Level(({commits[c].parentCommitId : c \in S \cap CommitIds}
                \cup {commits[c].mergedFromCommitId : c \in S \cap CommitIds})
               \ {Null}, n - 1)

\* C5: the graph over parent and merged-from edges has no cycle, every
\* parent chain ends at the root of the commit's repository, and no ancestor
\* walk is cut short by the length limit of the walk
C5_AcyclicRootedGraph ==
  \A c \in CommitIds :
    /\ \A n \in 1..Len(commits) : c \notin Level({c}, n)
    /\ \E n \in 0..(Len(commits) - 1) :
         IsRootOf(commits[c].repositoryId, ParentSteps(c, n))
    /\ \A row \in AncestorRows(c, 0) : row[2] < Len(commits)

\* C5 witness: a merge commit two parent links above the root
C5_Witness ==
  \E c \in CommitIds :
    /\ commits[c].mergedFromCommitId # Null
    /\ ParentSteps(c, 2) # Null
    /\ IsRootOf(commits[c].repositoryId, ParentSteps(c, 2))

\* ------------------------------------------------------------------------
\* Properties of getMergeBase
\* ------------------------------------------------------------------------
IsAncestor(a, c) == \E n \in 0..Len(commits) : a \in Level({c}, n)

\* least number of parent or merged-from edges from c up to its ancestor a
Distance(c, a) == SetMin({n \in 0..Len(commits) : a \in Level({c}, n)})

CommonAncestors(x, y) == {a \in CommitIds : IsAncestor(a, x) /\ IsAncestor(a, y)}

\* C6: getMergeBase on two commits of one repository returns a common
\* ancestor whose sum of least distances is the least among all common
\* ancestors, and never fails for want of a common ancestor
C6_MergeBaseNearest ==
  res.op = "getMergeBase" =>
    /\ res.outcome = "ok"
    /\ res.base \in CommonAncestors(res.left, res.right)
    /\ \A a \in CommonAncestors(res.left, res.right) :
         Distance(res.left, res.base) + Distance(res.right, res.base)
           <= Distance(res.left, a) + Distance(res.right, a)

\* C6 witness: the base is reached from the left commit over its
\* merged-from edge only, and is neither argument
C6_Witness ==
  /\ res.op = "getMergeBase" /\ res.outcome = "ok"
  /\ res.base = commits[res.left].mergedFromCommitId
  /\ res.base # commits[res.left].parentCommitId
  /\ res.base \notin {res.left, res.right}
  /\ res.base # ParentSteps(res.left, 2)

\* C7: getMergeBase(x, y) = getMergeBase(y, x): two calls in a row with the
\* arguments swapped return the same commit
C7_MergeBaseSymmetric ==
  [][(/\ res.op = "getMergeBase" /\ res.outcome = "ok"
      /\ res'.op = "getMergeBase" /\ res'.outcome = "ok"
      /\ res'.left = res.right /\ res'.right = res.left
      /\ commits' = commits)
     => res'.base = res.base]_vars

\* ------------------------------------------------------------------------
\* Conflicts and blocked rebase (Spec)
\* ------------------------------------------------------------------------
\* the deltas that decide a path at a commit: those of the nearest commit
\* on the parent chain that has one at the path
RECURSIVE NearestDelta(_, _, _)
NearestDelta(commitId, path, fuel) ==
  IF commitId \notin CommitIds \/ fuel = 0 THEN {}
  ELSE LET here == {f \in files : f.commitId = commitId /\ f.path = path}
       IN IF here # {} THEN here
          ELSE NearestDelta(commits[commitId].parentCommitId, path, fuel - 1)

\* <<existence, symlink flag, content>> of a path at a commit
PathState(commitId, path) ==
  LET d == NearestDelta(commitId, path, Len(commits)) IN
  IF d = {} \/ \E f \in d : f.isDeleted
  THEN <<FALSE, FALSE, NullString>>
  ELSE LET f == CHOOSE g \in d : TRUE IN <<TRUE, f.isSymlink, f.content>>

StoredPaths == {f.path : f \in files}

\* the paths both sides changed from the base, each in its own way
DivergedPaths(base, left, right) ==
  {p \in StoredPaths :
     /\ PathState(left, p) # PathState(base, p)
     /\ PathState(right, p) # PathState(base, p)
     /\ PathState(left, p) # PathState(right, p)}

\* C8: getConflicts reports exactly the paths whose (existence, symlink
\* flag, content) differs from the merge base on the left, differs from it
\* on the right, and differs between left and right; a path changed on one
\* side only or changed the same way on both sides is not reported.
C8_ConflictsAreDivergedPaths ==
  (res.op = "getConflicts" /\ res.outcome = "ok") =>
    {c.path : c \in res.conflicts} =
      DivergedPaths(res.mergeBaseCommitId, res.left, res.right)

\* a conflict between a file and a symlink of the same content has been
\* reported
C8_Witness ==
  /\ res.op = "getConflicts" /\ res.outcome = "ok"
  /\ \E c \in res.conflicts :
       /\ PathState(res.left, c.path)[1] /\ PathState(res.right, c.path)[1]
       /\ PathState(res.left, c.path)[3] = PathState(res.right, c.path)[3]
       /\ PathState(res.left, c.path)[2] # PathState(res.right, c.path)[2]

\* C9: every reported conflict is delete/modify when the path exists at
\* the merge base and is missing on at least one side, add/add when it does
\* not exist at the merge base and exists on both sides, and modify/modify
\* otherwise.
C9_ConflictKind ==
  (res.op = "getConflicts" /\ res.outcome = "ok") =>
    \A c \in res.conflicts :
      LET baseExists == PathState(res.mergeBaseCommitId, c.path)[1]
          leftExists == PathState(res.left, c.path)[1]
          rightExists == PathState(res.right, c.path)[1]
      IN c.conflictKind =
           IF baseExists /\ (~leftExists \/ ~rightExists) THEN "delete/modify"
           ELSE IF ~baseExists /\ leftExists /\ rightExists THEN "add/add"
           ELSE "modify/modify"

\* a delete/modify conflict with the path missing on one side only
C9_Witness ==
  /\ res.op = "getConflicts" /\ res.outcome = "ok"
  /\ \E c \in res.conflicts :
       /\ c.conflictKind = "delete/modify"
       /\ PathState(res.left, c.path)[1] # PathState(res.right, c.path)[1]

\* a rebase of branchId onto ontoBranchId that neither fast path serves and
\* whose heads conflict
RebaseMustBlock(branchId, ontoBranchId) ==
  /\ branchId # ontoBranchId
  /\ HeadOf(branchId) # Null /\ HeadOf(ontoBranchId) # Null
  /\ \A mb \in MergeBaseCandidates(HeadOf(branchId), HeadOf(ontoBranchId)) :
       /\ mb # HeadOf(branchId) /\ mb # HeadOf(ontoBranchId)
       /\ DivergedPaths(mb, HeadOf(branchId), HeadOf(ontoBranchId)) # {}

\* C10: when neither fast path applies and the heads conflict, rebaseBranch
\* fails as blocked and changes nothing: no commit, no file delta, both
\* heads as before.
C10_BlockedRebaseChangesNothing ==
  [][\A b \in BranchIds, o \in BranchIds :
       (/\ res'.op = "rebaseBranch"
        /\ res'.branchId = b /\ res'.ontoBranchId = o
        /\ RebaseMustBlock(b, o))
       => (/\ res'.outcome = "error"
           /\ res'.error = "RebaseBlocked"
           /\ UNCHANGED dbvars)]_vars

\* a rebase has been blocked by a conflict
C10_Witness ==
  /\ res.op = "rebaseBranch" /\ res.outcome = "error"
  /\ res.error = "RebaseBlocked"
  /\ RebaseMustBlock(res.branchId, res.ontoBranchId)

\* C2: commitToBranch, initRepository, rebaseBranch and finalizeCommit are
\* all-or-nothing: a call that ends in an error leaves the repositories,
\* branches, commits and file deltas as they were before the call.
C2_AllOrNothing ==
  [][(/\ res'.op \in {"commitToBranch", "initRepository", "rebaseBranch",
                      "finalizeCommit"}
      /\ res'.outcome = "error")
     => UNCHANGED dbvars]_vars

\* ------------------------------------------------------------------------
\* Rebase outcomes (Spec)
\* ------------------------------------------------------------------------
\* the step is a rebaseBranch call that returned the given operation
RebaseStep(operation) ==
  /\ res'.op = "rebaseBranch" /\ res'.outcome = "ok"
  /\ res'.operation = operation

\* C11: a rebaseBranch call with outcome rebased creates exactly one
\* commit, with parent onto's head and merged-from null, moves only the
\* rebased branch's head to it, leaves onto's head as it was, and reports as
\* appliedFileCount the number of file deltas of the new commit.
C11_RebasedCreatesOneCommit ==
  [][RebaseStep("rebased") =>
       LET b == res'.branchId
           o == res'.ontoBranchId
           newId == Len(commits) + 1
       IN /\ commits' = Append(commits,
                          [repositoryId |-> branches[b].repositoryId,
                           parentCommitId |-> HeadOf(o),
                           mergedFromCommitId |-> Null])
          /\ res'.rebasedCommitId = newId
          /\ branches' = [branches EXCEPT ![b].headCommitId = newId]
          /\ branches'[o].headCommitId = HeadOf(o)
          /\ repositories' = repositories
          /\ files \subseteq files'
          /\ \A f \in files' \ files : f.commitId = newId
          /\ res'.appliedFileCount = Cardinality(files' \ files)]_vars

\* a rebase has created a commit with at least one file delta
C11_Witness ==
  /\ res.op = "rebaseBranch" /\ res.outcome = "ok" /\ res.operation = "rebased"
  /\ res.appliedFileCount >= 1
  /\ HeadOf(res.branchId) = res.rebasedCommitId

\* C12: after a rebaseBranch call with outcome rebased, the state
\* (existence, symlink flag, content) of every path at the new commit is the
\* old branch head's state if the branch changed the path relative to the
\* merge base, and onto's head state otherwise.
C12_RebasedSnapshot ==
  [][RebaseStep("rebased") =>
       \A p \in StoredPaths :
         \* the new commit is the last one after the step
         PathState(Len(commits), p)' =
           IF PathState(HeadOf(res'.branchId), p)
                # PathState(res'.mergeBaseCommitId, p)
           THEN PathState(HeadOf(res'.branchId), p)
           ELSE PathState(HeadOf(res'.ontoBranchId), p)]_vars

\* a rebase has carried a change of the branch over a change of onto: the
\* new commit differs from onto's head on one path and from its
\* grandparent, through onto's head, on another
C12_Witness ==
  /\ res.op = "rebaseBranch" /\ res.outcome = "ok" /\ res.operation = "rebased"
  /\ \E p \in StoredPaths, q \in StoredPaths :
       /\ p # q
       /\ PathState(res.rebasedCommitId, p)
            # PathState(HeadOf(res.ontoBranchId), p)
       /\ PathState(HeadOf(res.ontoBranchId), q)
            # PathState(res.mergeBaseCommitId, q)
       /\ PathState(res.rebasedCommitId, q)
            = PathState(HeadOf(res.ontoBranchId), q)

\* C15: a rebaseBranch call with outcome fast_forward creates no commit and
\* no file delta; the only change is that the rebased branch's head becomes
\* onto's head.
C15_FastForwardMovesOnlyTheHead ==
  [][RebaseStep("fast_forward") =>
       /\ commits' = commits
       /\ files' = files
       /\ repositories' = repositories
       /\ branches' = [branches EXCEPT
                         ![res'.branchId].headCommitId = HeadOf(res'.ontoBranchId)]]_vars

\* a fast-forward through an empty patch: the merge base is not the head
\* the branch was moved to, and every head is a proper descendant of it
C15_Witness ==
  /\ res.op = "rebaseBranch" /\ res.outcome = "ok"
  /\ res.operation = "fast_forward"
  /\ HeadOf(res.branchId) = HeadOf(res.ontoBranchId)
  /\ \E c \in CommitIds :
       /\ commits[c].parentCommitId = res.mergeBaseCommitId
       /\ c # HeadOf(res.ontoBranchId)
       /\ \A row \in CommitTree(HeadOf(res.ontoBranchId), 0) : row[1] # c
       /\ \E f \in files, g \in files :
            /\ f.commitId = c /\ g.commitId = HeadOf(res.ontoBranchId)
            /\ f.path = g.path /\ f.content = g.content
            /\ f.isDeleted = g.isDeleted /\ f.isSymlink = g.isSymlink

\* the state rebaseBranch wants for a path: the branch's if the branch
\* changed it from the merge base, else onto's
DesiredState(branchId, ontoBranchId, mergeBase, path) ==
  IF PathState(HeadOf(branchId), path) # PathState(mergeBase, path)
  THEN PathState(HeadOf(branchId), path)
  ELSE PathState(HeadOf(ontoBranchId), path)

\* the paths whose desired state differs from onto's head state
PathsToWrite(branchId, ontoBranchId, mergeBase) ==
  {p \in StoredPaths :
     DesiredState(branchId, ontoBranchId, mergeBase, p)
       # PathState(HeadOf(ontoBranchId), p)}

\* C35: the commit of a rebased outcome holds a delta for a path exactly
\* when the desired state of the path differs from onto's head state, a
\* tombstone when the path must disappear and a write otherwise; when no
\* path differs, no commit is created and the outcome is fast_forward
\* with appliedFileCount 0.
C35_MinimalPatch ==
  [][\A b \in BranchIds, o \in BranchIds :
       (/\ res'.op = "rebaseBranch" /\ res'.outcome = "ok"
        /\ res'.branchId = b /\ res'.ontoBranchId = o
        /\ b # o
        /\ res'.mergeBaseCommitId \notin {HeadOf(b), HeadOf(o)})
       => LET toWrite == PathsToWrite(b, o, res'.mergeBaseCommitId) IN
          IF toWrite = {}
          THEN /\ res'.operation = "fast_forward"
               /\ res'.appliedFileCount = 0
               /\ commits' = commits /\ files' = files
          ELSE /\ res'.operation = "rebased"
               /\ {f.path : f \in files' \ files} = toWrite
               /\ \A f \in files' \ files :
                    /\ f.commitId = res'.rebasedCommitId
                    /\ f.isDeleted <=>
                         ~DesiredState(b, o, res'.mergeBaseCommitId, f.path)[1]]_vars

\* a rebase has written a tombstone: the branch deleted a path onto still has
C35_Witness ==
  /\ res.op = "rebaseBranch" /\ res.outcome = "ok" /\ res.operation = "rebased"
  /\ \E f \in files :
       /\ f.commitId = res.rebasedCommitId /\ f.isDeleted
       /\ PathState(commits[res.rebasedCommitId].parentCommitId, f.path)[1]

\* C36: rebaseBranch is idempotent on success: right after
\* rebaseBranch(branch, onto) returned fast_forward or rebased, a second
\* rebaseBranch(branch, onto) returns already_up_to_date and changes
\* nothing.
C36_RebaseIdempotent ==
  (/\ res.op = "rebaseBranch" /\ res.outcome = "ok"
   /\ res.operation \in {"fast_forward", "rebased"})
  => \A out \in rebaseBranchOutcomes(res.branchId, res.ontoBranchId) :
       /\ out.res.outcome = "ok"
       /\ out.res.operation = "already_up_to_date"
       /\ out.repositories = repositories /\ out.branches = branches
       /\ out.commits = commits /\ out.files = files

\* a rebase has just created a commit, and the same call made again is
\* answered already_up_to_date
C36_Witness ==
  /\ res.op = "rebaseBranch" /\ res.outcome = "ok" /\ res.operation = "rebased"
  /\ \E out \in rebaseBranchOutcomes(res.branchId, res.ontoBranchId) :
       out.res.operation = "already_up_to_date"

\* C39: rebaseBranch(b, b) returns noop and changes nothing whatever the
\* head of b is, even null; for two distinct branches of one repository of
\* which at least one has a null head, rebaseBranch fails with EmptyBranch
\* and changes nothing.
C39_NoopAndEmptyBranch ==
  [][\A b \in BranchIds, o \in BranchIds :
       (/\ res'.op = "rebaseBranch"
        /\ res'.branchId = b /\ res'.ontoBranchId = o)
       => /\ b = o => (/\ res'.outcome = "ok"
                       /\ res'.operation = "noop"
                       /\ UNCHANGED dbvars)
          /\ (/\ b # o
              /\ branches[b].repositoryId = branches[o].repositoryId
              /\ HeadOf(b) = Null \/ HeadOf(o) = Null)
             => (/\ res'.outcome = "error"
                 /\ res'.error = "EmptyBranch"
                 /\ UNCHANGED dbvars)]_vars

\* a branch with commits was refused onto a branch without head
C39_Witness ==
  /\ res.op = "rebaseBranch" /\ res.outcome = "error"
  /\ res.error = "EmptyBranch"
  /\ HeadOf(res.branchId) # Null
  /\ HeadOf(res.ontoBranchId) = Null

\* the statements of a kind sent for a savepoint
SentFor(log, name, kinds) ==
  Cardinality({i \in 1..Len(log) : log[i].name = name /\ log[i].statement \in kinds})
SavepointNames(sess) == {sess.savepoints[i].name : i \in 1..Len(sess.savepoints)}
SavepointEnds == {"RELEASE SAVEPOINT", "ROLLBACK TO SAVEPOINT"}

RebaseCall(b, o) ==
  /\ res'.op = "rebaseBranch"
  /\ res'.branchId = b /\ res'.ontoBranchId = o
  /\ b # o
  /\ HeadOf(b) # Null /\ HeadOf(o) # Null

\* a is c or is on the parent chain of c
OnParentChain(a, c) == \E row \in CommitTree(c, 0) : row[1] = a

\* C13: whenever onto's head is the branch's head or one of its ancestors,
\* rebaseBranch(branch, onto) on two distinct branches returns
\* already_up_to_date and changes nothing in the persisted state.
C13_OntoAncestorIsUpToDate ==
  [][\A b \in BranchIds, o \in BranchIds :
       (RebaseCall(b, o) /\ OnParentChain(HeadOf(o), HeadOf(b)))
       => (/\ res'.outcome = "ok"
           /\ res'.operation = "already_up_to_date"
           /\ UNCHANGED dbvars)]_vars

\* C14: whenever the branch's head is a proper ancestor of onto's head,
\* rebaseBranch(branch, onto) returns fast_forward and the branch's head
\* becomes onto's head.
C14_BranchAncestorFastForwards ==
  [][\A b \in BranchIds, o \in BranchIds :
       (/\ RebaseCall(b, o)
        /\ HeadOf(b) # HeadOf(o)
        /\ OnParentChain(HeadOf(b), HeadOf(o)))
       => (/\ res'.outcome = "ok"
           /\ res'.operation = "fast_forward"
           /\ branches'[b].headCommitId = HeadOf(o))]_vars

\* ------------------------------------------------------------------------
\* Merge finalizer (SpecMerge)
\* ------------------------------------------------------------------------
\* the step is the call finalizeCommit(commitId, targetBranchId)
FinalizeCall(commitId, targetBranchId) ==
  /\ res'.op = "finalizeCommit"
  /\ res'.commitId = commitId /\ res'.targetBranchId = targetBranchId

FinalizeTargets == {Undefined} \cup BranchIds

\* the commit the merge is applied on: the target's head, or the parent of
\* the commit without a target
TargetHead(commitId, targetBranchId) ==
  IF targetBranchId = Undefined THEN commits[commitId].parentCommitId
  ELSE HeadOf(targetBranchId)

DeltaPaths(commitId) == {f.path : f \in {g \in files : g.commitId = commitId}}

\* C16: finalizeCommit(commit, targetBranch) fails with HeadMismatch and
\* changes nothing whenever the head of the target branch differs from the
\* parent of the commit; a commit with a null parent passes only onto a
\* branch with a null head.
C16_HeadMismatch ==
  [][\A c \in CommitIds, t \in BranchIds :
       (FinalizeCall(c, t) /\ commits[c].parentCommitId # HeadOf(t))
       => (/\ res'.outcome = "error"
           /\ res'.error = "HeadMismatch"
           /\ UNCHANGED dbvars)]_vars

\* a commit prepared on one head was refused on a branch with another head
C16_Witness ==
  /\ res.op = "finalizeCommit" /\ res.outcome = "error"
  /\ res.error = "HeadMismatch"
  /\ commits[res.commitId].parentCommitId # Null
  /\ HeadOf(res.targetBranchId) # Null
  /\ HeadOf(res.targetBranchId) # commits[res.commitId].parentCommitId

\* a merge finalize that passes the branch context and getMergeBase
MergeFinalize(c, t) ==
  /\ FinalizeCall(c, t)
  /\ commits[c].mergedFromCommitId # Null
  /\ t # Undefined => commits[c].parentCommitId = HeadOf(t)
  /\ TargetHead(c, t) # Null

\* the conflicting paths of the merge, and those without a delta in the commit
MergeConflicts(c, t, base) ==
  DivergedPaths(base, TargetHead(c, t), commits[c].mergedFromCommitId)

Unresolved(c, t, base) == MergeConflicts(c, t, base) \ DeltaPaths(c)

MergeBases(c, t) ==
  MergeBaseCandidates(TargetHead(c, t), commits[c].mergedFromCommitId)

\* what the conflict errors carry (SpecMergeRebase)
\* C21: the error of a rebaseBranch blocked by conflicts carries the full
\* list of conflicts, and the error of a finalizeCommit with unresolved
\* conflicts carries exactly the conflicting paths without a resolution.
C21_ConflictErrorsCarryPaths ==
  [][/\ (/\ res'.op = "rebaseBranch" /\ res'.outcome = "error"
         /\ res'.error = "RebaseBlocked")
        => (/\ "conflicts" \in DOMAIN res'
            /\ \E base \in MergeBaseCandidates(HeadOf(res'.branchId),
                                               HeadOf(res'.ontoBranchId)) :
                 {c.path : c \in res'.conflicts} =
                   DivergedPaths(base, HeadOf(res'.branchId),
                                 HeadOf(res'.ontoBranchId)))
     /\ (/\ res'.op = "finalizeCommit" /\ res'.outcome = "error"
         /\ res'.error = "UnresolvedConflicts")
        => (/\ "missingResolutions" \in DOMAIN res'
            /\ \E base \in MergeBases(res'.commitId, res'.targetBranchId) :
                 {c.path : c \in res'.missingResolutions} =
                   Unresolved(res'.commitId, res'.targetBranchId, base))]_vars

\* C17: finalizeCommit on a merge commit fails with UnresolvedConflicts,
\* writes no delta and leaves the target head as it was whenever a
\* conflicting path of (target head, merged-from) has no delta in the
\* commit; once every conflicting path has one, the call succeeds with
\* outcome merged_with_conflicts_resolved.
C17_UnresolvedConflicts ==
  [][\A c \in CommitIds, t \in FinalizeTargets :
       MergeFinalize(c, t) =>
         /\ (\A base \in MergeBases(c, t) : Unresolved(c, t, base) # {})
            => (/\ res'.outcome = "error"
                /\ res'.error = "UnresolvedConflicts"
                /\ UNCHANGED dbvars)
         /\ (\A base \in MergeBases(c, t) :
               MergeConflicts(c, t, base) # {} /\ Unresolved(c, t, base) = {})
            => (/\ res'.outcome = "ok"
                /\ res'.operation = "merged_with_conflicts_resolved")]_vars

\* a merge whose conflict the caller resolved has been finalized on a branch
C17_Witness ==
  /\ res.op = "finalizeCommit" /\ res.outcome = "ok"
  /\ res.operation = "merged_with_conflicts_resolved"
  /\ res.targetBranchId # Undefined
  /\ HeadOf(res.targetBranchId) = res.commitId

\* the step is a merge finalize of c on t that returned
MergeFinalized(c, t) ==
  /\ FinalizeCall(c, t)
  /\ res'.outcome = "ok"
  /\ commits[c].mergedFromCommitId # Null

DeltasOf(F, commitId, path) == {f \in F : f.commitId = commitId /\ f.path = path}

\* C18: after a successful merge finalizeCommit, the state of every path
\* the caller had not written in the commit is, at the commit, the
\* merged-from commit's state if merged-from changed the path relative to
\* the merge base and the target head's state otherwise; a path the caller
\* wrote keeps the caller's delta, and a delta is added only where the
\* result differs from the target's state.
C18_MergedSnapshot ==
  [][\A c \in CommitIds, t \in FinalizeTargets :
       MergeFinalized(c, t) =>
         LET source == commits[c].mergedFromCommitId
             target == TargetHead(c, t)
             base == res'.mergeBaseCommitId
         IN /\ \A p \in StoredPaths \ DeltaPaths(c) :
                 PathState(c, p)' =
                   IF PathState(source, p) # PathState(base, p)
                   THEN PathState(source, p)
                   ELSE PathState(target, p)
            /\ \A p \in DeltaPaths(c) : DeltasOf(files', c, p) = DeltasOf(files, c, p)
            /\ files \subseteq files'
            /\ \A f \in files' \ files :
                 /\ f.commitId = c
                 /\ PathState(c, f.path)' # PathState(target, f.path)]_vars

\* a merge without conflicts has applied a change of the merged-from commit
C18_Witness ==
  /\ res.op = "finalizeCommit" /\ res.outcome = "ok"
  /\ res.operation = "merged"
  /\ res.appliedFileCount >= 1
  /\ \E p \in StoredPaths :
       PathState(res.commitId, p)
         # PathState(commits[res.commitId].parentCommitId, p)

\* C19: every successful finalizeCommit with a target branch, whatever its
\* outcome, sets the branch's head to commitId, a commit whose parent is the
\* branch's previous head; without a target no branch head changes.
C19_FinalizeAdvancesTarget ==
  [][\A c \in CommitIds, t \in FinalizeTargets :
       (FinalizeCall(c, t) /\ res'.outcome = "ok") =>
         IF t = Undefined
         THEN branches' = branches
         ELSE /\ branches' = [branches EXCEPT ![t].headCommitId = c]
              /\ commits[c].parentCommitId = HeadOf(t)]_vars

\* a merge of an ancestor has been finalized on a branch
C19_Witness ==
  /\ res.op = "finalizeCommit" /\ res.outcome = "ok"
  /\ res.operation = "already_up_to_date"
  /\ res.targetBranchId # Undefined
  /\ HeadOf(res.targetBranchId) = res.commitId

\* C20: a successful finalizeCommit returns fast_forward exactly when the
\* commit's merged-from is null; otherwise already_up_to_date when the merge
\* base of (target head, merged-from) is merged-from, else
\* merged_with_conflicts_resolved when (target head, merged-from) conflict,
\* else merged.
C20_FinalizeOutcome ==
  [][\A c \in CommitIds, t \in FinalizeTargets :
       (FinalizeCall(c, t) /\ res'.outcome = "ok") =>
         LET source == commits[c].mergedFromCommitId IN
         /\ res'.operation = "fast_forward" <=> source = Null
         /\ source # Null =>
              /\ MergeBases(c, t) = {source}
                 => res'.operation = "already_up_to_date"
              /\ (/\ source \notin MergeBases(c, t)
                  /\ \A base \in MergeBases(c, t) : MergeConflicts(c, t, base) # {})
                 => res'.operation = "merged_with_conflicts_resolved"
              /\ (/\ source \notin MergeBases(c, t)
                  /\ \A base \in MergeBases(c, t) : MergeConflicts(c, t, base) = {})
                 => res'.operation = "merged"]_vars

\* a root commit prepared with createCommit has been finalized on the
\* branch with no head
C20_Witness ==
  /\ res.op = "finalizeCommit" /\ res.outcome = "ok"
  /\ res.operation = "fast_forward"
  /\ commits[res.commitId].mergedFromCommitId = Null
  /\ commits[res.commitId].parentCommitId = Null
  /\ res.targetBranchId # Undefined
  /\ HeadOf(res.targetBranchId) = res.commitId

C28_ValidationBeforeMutation ==
  [][(/\ res'.op \in {"commitToBranch", "initRepository"}
      /\ res'.outcome = "error"
      /\ res'.error = "InvalidPath")
     => (commits' = commits /\ files' = files)]_vars

\* ------------------------------------------------------------------------
\* Default parent and branch heads (SpecGraph)
\* ------------------------------------------------------------------------
\* the commit a createCommit step has inserted
Inserted == commits'[Len(commits')]

\* C29: createCommit with the parent omitted uses the default branch's head
\* as parent; if that head is null it creates the root commit when the
\* repository has no commit and fails with AmbiguousParent, inserting
\* nothing, when the repository has commits; a parent passed as null is
\* never replaced by the default head.
C29_DefaultParent ==
  [][\A r \in RepoIds, m \in {Null} \cup CommitIds :
       /\ createCommit(r, Undefined, m) =>
            IF DefaultBranchHead(r) # Null
            THEN res'.outcome = "ok" => Inserted.parentCommitId = DefaultBranchHead(r)
            ELSE IF ~CommitExistsIn(r)
                 THEN /\ res'.outcome = "ok" => Inserted.parentCommitId = Null
                      /\ m = Null => res'.outcome = "ok"
                 ELSE /\ res'.outcome = "error"
                      /\ res'.error = "AmbiguousParent"
                      /\ UNCHANGED dbvars
       /\ createCommit(r, Null, m) =>
            (res'.outcome = "ok" => Inserted.parentCommitId = Null)]_vars

\* createCommit without a parent was refused in a repository that has
\* commits and a default branch without head, while another repository's
\* default branch has a head
C29_Witness ==
  /\ res.op = "createCommit" /\ res.outcome = "error"
  /\ res.error = "AmbiguousParent"
  /\ \E r \in RepoIds : DefaultBranchHead(r) = Null /\ CommitExistsIn(r)
  /\ \E r \in RepoIds : DefaultBranchHead(r) # Null

\* C30: a branch has a null head only if its repository contains no commit.
C30_NullHeadOnlyWithoutCommits ==
  \A b \in BranchIds :
    branches[b].headCommitId = Null => ~CommitExistsIn(branches[b].repositoryId)

\* ------------------------------------------------------------------------
\* Reads of the file history (SpecFiles)
\* ------------------------------------------------------------------------
\* the deltas of the closest commit on the parent chain of commitId
\* (commitId included) that records an operation on the path: a delta at the
\* path or a delta moved away from it
RECURSIVE ClosestOperations(_, _, _)
ClosestOperations(commitId, path, fuel) ==
  IF commitId \notin CommitIds \/ fuel = 0 THEN {}
  ELSE LET here == {f \in files : /\ f.commitId = commitId
                                  /\ f.path = path \/ f.previousPath = path}
       IN IF here # {} THEN here
          ELSE ClosestOperations(commits[commitId].parentCommitId, path, fuel - 1)

ClosestWrites(commitId, path) ==
  {f \in ClosestOperations(commitId, path, Len(commits)) :
     f.path = path /\ ~f.isDeleted}

ClosestDeletions(commitId, path) ==
  {f \in ClosestOperations(commitId, path, Len(commits)) :
     (f.path = path /\ f.isDeleted) \/ f.previousPath = path}

\* C22: if the closest commit on the parent chain of C (C included) that
\* records an operation on p records a tombstone for p, readFile(C, p) is
\* absent, whatever older ancestors wrote at p.
C22_TombstoneReadsAbsent ==
  (res.op = "readFile" /\ res.outcome = "ok") =>
    ((\E f \in ClosestOperations(res.commitId, res.path, Len(commits)) :
        f.path = res.path /\ f.isDeleted)
     => res.content = NullString)

\* a path written in the root and deleted in its child was read at the child
C22_Witness ==
  /\ res.op = "readFile" /\ res.outcome = "ok"
  /\ res.commitId = 2 /\ commits[2].parentCommitId = 1
  /\ \E f \in files : f.commitId = 2 /\ f.path = res.path /\ f.isDeleted
  /\ \E f \in files : f.commitId = 1 /\ f.path = res.path /\ ~f.isDeleted
  /\ res.content = NullString

\* C23: after a delta with path B and previousPath A is written in commit
\* C, readFile(C, A) is absent and readFile(C, B) returns the written
\* content, whatever the ancestors of C held and whatever other deltas C
\* holds.
C23_MoveReads ==
  (res.op = "readFile" /\ res.outcome = "ok") =>
    \A f \in files :
      (/\ f.commitId = res.commitId
       /\ f.previousPath # NoPath /\ f.previousPath # f.path /\ ~f.isDeleted)
      => /\ res.path = f.previousPath => res.content = NullString
         /\ res.path = f.path => res.content = f.content

StartsWith(s, prefix) ==
  Len(prefix) <= Len(s) /\ SubSeq(s, 1, Len(prefix)) = prefix

\* C25: getCommitSnapshot(C, prefix) returns exactly the paths of
\* getCommitSnapshot(C) that start, character for character, with the
\* normalized prefix; no character of the prefix is a wildcard.
C25_PrefixIsLiteral ==
  (res.op = "getCommitSnapshot" /\ res.outcome = "ok" /\ res.pathPrefix # NoPath) =>
    \E full \in CommitSnapshots(res.commitId) :
      res.snapshot =
        {e \in full : StartsWith(e.path, normalizePathPrefixValue(res.pathPrefix))}

\* the distance of an ancestor from commitId on the parent chain
DepthOf(commitId, ancestor) ==
  CHOOSE d \in 0..Len(commits) : <<ancestor, d>> \in CommitTree(commitId, 0)

\* C26: getFileHistory(C, p) returns every delta at p in the parent chain
\* of C (C included), ordered newest ancestor first, each tombstone with
\* null content.
C26_HistoryNewestFirst ==
  (res.op = "getFileHistory" /\ res.outcome = "ok") =>
    /\ {res.history[i].commitId : i \in DOMAIN res.history} =
         {f.commitId : f \in {g \in files : /\ g.path = res.path
                                            /\ OnParentChain(g.commitId, res.commitId)}}
    /\ \A i \in DOMAIN res.history :
         res.history[i].isDeleted => res.history[i].content = NullString
    /\ \A i \in DOMAIN res.history, j \in DOMAIN res.history :
         i < j => DepthOf(res.commitId, res.history[i].commitId)
                    < DepthOf(res.commitId, res.history[j].commitId)

\* C27: every persisted file delta with the deleted flag set has symlink
\* flag false and empty content, whatever content and symlink flag the
\* caller passed to writeFile.
C27_TombstonesAreEmpty ==
  \A f \in files : f.isDeleted => (~f.isSymlink /\ f.content = <<>>)

\* writeFile has just stored the only delta of the latest commit, a
\* tombstone (writeFile is given tombstones with content and symlink flag
\* only)
C27_Witness ==
  /\ res.op = "writeFile" /\ res.outcome = "ok"
  /\ \E f \in files : f.commitId = Prepared /\ f.isDeleted
  /\ \A f \in files : f.commitId = Prepared => f.isDeleted

\* the paths some delta is stored at or was moved away from
TouchedPaths == StoredPaths \cup ({f.previousPath : f \in files} \ {NoPath})

\* C33: among the deltas in the parent chain of a commit that write a path
\* or move away from it, the one at minimum depth is unique, so readFile
\* and getCommitSnapshot are determined by the persisted state.
C33_NoTiesAtADepth ==
  \A c \in CommitIds :
    /\ \A p \in TouchedPaths :
         /\ Cardinality(ClosestOperations(c, p, Len(commits))) <= 1
         /\ Cardinality(ReadFileResults(c, p)) = 1
    /\ Cardinality(CommitSnapshots(c)) = 1

\* C34: readFile and getCommitSnapshot agree: a path is listed in
\* getCommitSnapshot(C) exactly when readFile(C, p) is not absent, and
\* getCommitSnapshotWithContent(C) gives it the content readFile returns.
C34_ReadsAgree ==
  \A c \in CommitIds, p \in TouchedPaths :
    \A content \in ReadFileResults(c, p) :
      /\ \A snapshot \in CommitSnapshots(c) :
           (\E e \in snapshot : e.path = p) <=> content # NullString
      /\ \A snapshot \in CommitSnapshotsWithContent(c) :
           \A e \in snapshot : e.path = p => e.content = content

\* ------------------------------------------------------------------------
\* Published history (SpecServed)
\* ------------------------------------------------------------------------
\* the commit is the head of a branch or an ancestor of one
Published(commitId) == \E b \in BranchIds : OnParentChain(commitId, HeadOf(b))

\* C38: published history is stable: once a commit is the head of a branch
\* or an ancestor of one, no later operation changes what readFile or
\* getCommitSnapshot return at that commit.
C38_PublishedHistoryIsStable ==
  [][\A c \in CommitIds :
       Published(c) =>
         /\ CommitSnapshots(c)' = CommitSnapshots(c)
         /\ \A p \in ReadPaths : ReadFileResults(c, p)' = ReadFileResults(c, p)]_vars

\* ------------------------------------------------------------------------
\* Path normalization (SpecPaths)
\* ------------------------------------------------------------------------
\* C31: normalizePath is idempotent: applied to a path it returned, it
\* returns that path again and does not reject it.
C31_NormalizeIdempotent ==
  (res.op = "normalizePath" /\ res.applied = 2) =>
    (res.outcome = "ok" /\ res.value = res.path)

\* normalizePath was applied twice to an input with a backslash, a double
\* slash and a trailing slash
C31_Witness ==
  /\ res.op = "normalizePath" /\ res.applied = 2 /\ res.outcome = "ok"
  /\ Includes2Slash(ReplaceBackslashes(res.input))
  /\ \E i \in DOMAIN res.input : res.input[i] = "\\"
  /\ res.input[Len(res.input)] = "/"
  /\ res.value # <<"/">>

\* ------------------------------------------------------------------------
\* Interleaved finalizeCommit calls (SpecRace)
\* ------------------------------------------------------------------------
\* C32: of two finalizeCommit calls that target the same branch with two
\* different commits prepared on the same head, at most one succeeds, under
\* any interleaving; the other fails with HeadMismatch.
C32_OneFinalizePerHead ==
  \A x \in acked, y \in acked :
    (/\ x[1] = y[1]
     /\ commits[x[2]].parentCommitId = commits[y[2]].parentCommitId)
    => x[2] = y[2]

\* ------------------------------------------------------------------------
\* Interleavings (SpecConc)
\* ------------------------------------------------------------------------
RootsOf(repositoryId) ==
  {c \in CommitIds : commits[c].repositoryId = repositoryId
                       /\ commits[c].parentCommitId = Null}

\* the step of caller k that runs the insert of a second null-parent commit
SecondRootInsert(k) ==
  /\ pc[k] = "cc_insert" /\ pc'[k] # "cc_insert"
  /\ loc[k].resolvedParentCommitId = Null
  /\ RootsOf(loc[k].repositoryId) # {}

\* C3: in every state, also while createCommit calls on an empty
\* repository interleave, a repository has at most one commit with a null
\* parent; the createCommit that would add a second one fails and inserts
\* nothing.
C3_OneRootPerRepository ==
  /\ [](\A r \in RepoIds : Cardinality(RootsOf(r)) <= 1)
  /\ [][\A k \in Clients :
          SecondRootInsert(k) =>
            (/\ commits' = commits
             /\ res'.outcome = "error" /\ res'.client = k)]_vars

\* a createCommit without a parent argument saw an empty repository, lost
\* the race for the root and failed at the insert
C3_Witness ==
  /\ res.op = "createCommit" /\ res.outcome = "error"
  /\ res.error = "ConstraintViolation"
  /\ res.parentCommitId = Undefined
  /\ \E r \in RepoIds : Cardinality(RootsOf(r)) = 1

\* C1: whatever the interleaving of two history-advancing operations on a
\* branch, every commit whose operation returned success stays reachable
\* over parent links from the head of its branch.
C1_ReturnedCommitsStayReachable ==
  \A a \in acked : \E row \in CommitTree(HeadOf(a[1]), 0) : row[1] = a[2]

====
